---- MODULE Spec2Model ----
(***************************************************************************)
(* A model of the animated ASCII-art pipeline of ccusage-gorgeous: the     *)
(* rainbow animation plugin (colour pattern engine) and the rainbow TUI    *)
(* display plugin (rasterizer, centering, compositor), the ccusage data     *)
(* source plugin, the TUI model that drives them, and the core: the plugin *)
(* registry, the configuration manager and the command line flags.         *)
(*                                                                         *)
(* Strings of the program are sequences of one-character strings, so that  *)
(* they can be indexed; a canvas is the sequence of its lines (the string  *)
(* split at "\n").  The timestamps of frames, cost data and display data   *)
(* are left out: nothing reads them.  The data source's lastUpdate, which  *)
(* its cache test reads, is kept on a clock of whole seconds.              *)
(***************************************************************************)
EXTENDS Integers, Sequences, FiniteSets, Bags, TLC

VARIABLES
  anim,      \* the RainbowAnimationPlugin object: [enabled, frameCount]
  animCfg,   \* the *domain.AnimationConfig the caller passes to GenerateFrame
  animText,  \* the text the caller passes to GenerateFrame
  animCall,  \* the most recent GenerateFrame call: its arguments and result
  animPrev,  \* the GenerateFrame call before that one
  sweep,     \* a run of GenerateFrame calls over consecutive frame numbers
  disp,      \* the RainbowTUIPlugin object: [enabled]
  dispData,  \* the *domain.DisplayData the caller passes to Render
  dispCall,  \* the most recent Render call and its result
  life,      \* per plugin, the most recent lifecycle call made on it
  ctr,       \* a canvas, a viewport and the centerASCIIArt calls made on them
  val,       \* a config and the ValidateAnimationConfig call made on it
  ds,        \* the CcusageCliPlugin object
  dsCall,    \* the watched FetchCostData call, if it has just returned, and its result
  fetches,   \* the FetchCostData calls in flight, in the order they started
  now,       \* the wall clock, in seconds
  tui,       \* the TUI Model object
  cmds,      \* the commands the TUI model has returned that have not delivered their message
  view,      \* the View call made since the last message was handled, and its result
  reg,       \* the PluginRegistry object: its three maps from names to plugins
  plugins,   \* the plugin objects handed to the registry: [enabled] of each
  cfg,       \* the ConfigManager's config
  coreCall,  \* the most recent call on the registry or the ConfigManager
  fma        \* the build: whether it fuses a float64 x*y + z into one rounding

animVars == <<anim, animCfg, animText, animCall, animPrev, sweep>>
dispVars == <<disp, dispData, dispCall>>
ctrVars == <<ctr>>
valVars == <<val>>
dsVars == <<ds, dsCall, fetches, now>>
tuiVars == <<tui, cmds, view>>
coreVars == <<reg, plugins, cfg, coreCall>>
buildVars == <<fma>>

vars == <<animVars, dispVars, life, ctrVars, valVars, dsVars, tuiVars, coreVars, buildVars>>

(***************************************************************************)
(* Bounds of the model.                                                    *)
(***************************************************************************)
\* frame numbers passed to GenerateFrame are 0..MaxFrame
MaxFrame == 4
\* texts passed to GenerateFrame have 0..MaxLen characters
MaxLen == 6
\* palettes passed to GenerateFrame hold 0..MaxPalette colours
MaxPalette == 3
\* GenerateFrame is called while frameCount < MaxCalls (Initialize resets it)
MaxCalls == 2
\* a sweep of consecutive frames starts at a frame number in 0..MaxStart
MaxStart == 3
\* canvases passed to centerASCIIArt have 1..MaxCanvasLines lines of
\* 0..MaxCanvasWidth cells
MaxCanvasWidth == 2
MaxCanvasLines == 2
\* viewports passed to centerASCIIArt are 0..MaxViewWidth by 0..MaxViewHeight
MaxViewWidth == 5
MaxViewHeight == 4
\* centerASCIIArt is applied to a canvas and its results MaxCenterings times
MaxCenterings == 2
\* the TUI model handles tick messages while frameCount < MaxTicks
MaxTicks == 3
\* the 'r' key is handled while fewer than MaxFetches fetches are in flight
MaxFetches == 2
\* at most MaxInFlight calls of FetchCostData are in flight
MaxInFlight == 2
\* the clock of the data source runs from 0 to MaxNow seconds
MaxNow == 3

\* the number of consecutive frames of one sweep
SweepLen == 100

(***************************************************************************)
(* Helpers of the Go runtime and library the code relies on.               *)
(***************************************************************************)
\* math.Sin(k * 0.1), in millionths, rounded down; tabulated for k = 0..260,
\* which covers every argument the model evaluates (index k+1).
SinTable ==
  <<
     0, 99833, 198669, 295520, 389418, 479425, 564642, 644217,
     717356, 783326, 841470, 891207, 932039, 963558, 985449, 997494,
     999573, 991664, 973847, 946300, 909297, 863209, 808496, 745705,
     675463, 598472, 515501, 427379, 334988, 239249, 141120, 41580,
     -58375, -157746, -255542, -350784, -442521, -529837, -611858, -687767,
     -756803, -818278, -871576, -916166, -951603, -977531, -993692, -999924,
     -996165, -982453, -958925, -925815, -883455, -832268, -772765, -705541,
     -631267, -550686, -464603, -373877, -279416, -182163, -83090, 16813,
     116549, 215119, 311541, 404849, 494113, 578439, 656986, 728969,
     793667, 850436, 898708, 937999, 967919, 988168, 998543, 998941,
     989358, 969889, 940730, 902171, 854598, 798487, 734397, 662969,
     584917, 501020, 412118, 319098, 222889, 124454, 24775, -75152,
     -174327, -271761, -366480, -457536, -544022, -625071, -699875, -767686,
     -827827, -879696, -922776, -956636, -980937, -995437, -999991, -994553,
     -979178, -954020, -919329, -875453, -822829, -761984, -693526, -618138,
     -536573, -449648, -358230, -263232, -165605, -66322, 33623, 133232,
     231509, 327474, 420167, 508661, 592073, 669569, 740375, 803784,
     859161, 905954, 943695, 972007, 990607, 999309, 998026, 986771,
     965657, 934895, 894791, 845746, 788252, 722881, 650287, 571196,
     486398, 396740, 303118, 206467, 107753, 7963, -91907, -190859,
     -287904, -382072, -472422, -558053, -638107, -711786, -778353, -837142,
     -887568, -929125, -961398, -984066, -996901, -999775, -992660, -975627,
     -948845, -912583, -867203, -813158, -750988, -681314, -604833, -522309,
     -434566, -342481, -246974, -149000, -49536, 50422, 149877, 247834,
     343314, 435365, 523065, 605539, 681963, 751573, 813673, 867644,
     912945, 949124, 975820, 992766, 999792, 996829, 983906, 961152,
     928795, 887157, 836655, 777794, 711161, 637422, 557315, 471639,
     381250, 287052, 189986, 91022, -8852, -108637, -207337, -303965,
     -397556, -487175, -571926, -650963, -723495, -788799, -846221, -895188,
     -935210, -965889, -986916, -998083, -999276, -990486, -971799, -943402,
     -905579, -858708, -803256, -739779, -668910, -591358, -507897, -419361,
     -326636, -230646, -132352, -32736, 67208, 166480, 264088, 359058,
     450440, 537322, 618835, 694164, 762558  >>

\* math.Sin(float64(k) * 0.1) in millionths
SinMicro(k) == SinTable[k + 1]

(***************************************************************************)
(* Natural numbers beyond 32 bits, and float64 arithmetic on them.  A      *)
(* natural number is its limbs of 15 bits, lowest limb first and the       *)
(* highest limb not zero; zero has no limbs.                               *)
(***************************************************************************)
\* e, with v evaluated before it: an operand is otherwise evaluated where
\* it is first used, inside the steps that follow
Strict(v, e) == IF v = v THEN e ELSE e

\* the sum of f[lo], ..., f[hi]
RECURSIVE SumOver(_, _, _)
SumOver(f, lo, hi) ==
  IF lo > hi THEN 0
  ELSE IF lo = hi THEN f[lo]
  ELSE SumOver(f, lo, (lo + hi) \div 2) + SumOver(f, (lo + hi) \div 2 + 1, hi)

Limb(x, j) == IF j \in DOMAIN x THEN x[j] ELSE 0
Zeros(n) == [j \in 1..n |-> 0]

\* x without its leading zero limbs
BigNorm(x) ==
  LET nonzero == {j \in DOMAIN x : x[j] # 0}
  IN IF nonzero = {} THEN << >>
     ELSE SubSeq(x, 1, CHOOSE j \in nonzero : \A k \in nonzero : k <= j)

\* the limbs of the natural number n
RECURSIVE BigOf(_)
BigOf(n) == IF n = 0 THEN << >> ELSE << n % 2^15 >> \o BigOf(n \div 2^15)

\* the natural number x, for x < 2^31
RECURSIVE BigToInt(_)
BigToInt(x) == IF x = << >> THEN 0 ELSE x[1] + 2^15 * BigToInt(Tail(x))

\* the number with the limbs s[j] < 2^16 - 1: a limb takes a carry when a
\* lower limb overflows and every limb between the two passes the carry on
Carried(s) ==
  BigNorm([j \in 1..(Len(s) + 1) |->
             (Limb(s, j)
              + (IF \E i \in 1..(j - 1) :
                       /\ s[i] >= 2^15
                       /\ \A k \in (i + 1)..(j - 1) : s[k] >= 2^15 - 1
                 THEN 1 ELSE 0)) % 2^15])

\* x + y
BigAdd(x, y) ==
  IF x = << >> THEN y
  ELSE IF y = << >> THEN x
  ELSE Carried([j \in 1..(IF Len(x) > Len(y) THEN Len(x) ELSE Len(y)) |->
                  Limb(x, j) + Limb(y, j)])

\* x - y, for x >= y
BigSub(x, y) ==
  IF y = << >> THEN x
  ELSE BigNorm([j \in 1..Len(x) |->
                  (x[j] - Limb(y, j)
                   - (IF \E i \in 1..(j - 1) :
                            /\ x[i] < Limb(y, i)
                            /\ \A k \in (i + 1)..(j - 1) : x[k] <= Limb(y, k)
                      THEN 1 ELSE 0)) % 2^15])

\* x < y
BigLess(x, y) ==
  IF Len(x) # Len(y) THEN Len(x) < Len(y)
  ELSE \E j \in 1..Len(x) :
          x[j] < y[j] /\ \A k \in (j + 1)..Len(x) : x[k] = y[k]

\* x * y: the products x[i] * y[k - i + 1] belong to limb k; their low
\* halves are summed in limb k and their high halves in limb k + 1, and
\* what a sum has above 15 bits goes to the limb above
BigMul(x, y) ==
  IF x = << >> \/ y = << >> THEN << >>
  ELSE LET Column(k) ==
             SumOver([i \in 1..Len(x) |-> (x[i] * Limb(y, k - i + 1)) % 2^15],
                     1, Len(x))
             + SumOver([i \in 1..Len(x) |-> (x[i] * Limb(y, k - i)) \div 2^15],
                       1, Len(x))
           Spread(cols) ==
             [k \in DOMAIN cols |-> (cols[k] % 2^15) + (Limb(cols, k - 1) \div 2^15)]
       IN Carried(Spread([k \in 1..(Len(x) + Len(y)) |-> Column(k)]))

\* x * m, for a natural number m < 2^30
BigMulSmall(x, m) == BigMul(x, BigOf(m))

\* b^k mod d, for 0 < d <= 2^15
RECURSIVE PowMod(_, _, _)
PowMod(b, k, d) ==
  IF k = 0 THEN 1 % d
  ELSE LET h == PowMod(b, k \div 2, d)
       IN IF k % 2 = 1 THEN (((h * h) % d) * (b % d)) % d ELSE (h * h) % d

\* the quotient and the remainder of x by d, for 0 < d <= 2^15: Rem(j) is
\* the remainder of the limbs from j up
BigDivMod(x, d) ==
  LET Rem(j) ==
        SumOver([i \in j..Len(x) |-> (x[i] * PowMod(2^15, i - j, d)) % d],
                j, Len(x)) % d
  IN [q |-> BigNorm([j \in 1..Len(x) |-> (Rem(j + 1) * 2^15 + x[j]) \div d]),
      r |-> Rem(1)]

\* the number of significant bits of a limb, and of x
BitsOf(limb) == CHOOSE b \in 0..15 : limb < 2^b /\ (b = 0 \/ limb >= 2^(b - 1))
BitLen(x) == IF x = << >> THEN 0 ELSE 15 * (Len(x) - 1) + BitsOf(x[Len(x)])

\* x * 2^s
BigShiftLeft(x, s) ==
  IF x = << >> THEN << >>
  ELSE LET k == s \div 15
           r == s % 15
       IN BigNorm([j \in 1..(Len(x) + k + 1) |->
                     ((Limb(x, j - k) * 2^r) % 2^15)
                     + (Limb(x, j - k - 1) \div 2^(15 - r))])

\* floor(x / 2^s), and whether bits were shifted out
BigShiftRight(x, s) ==
  LET k == s \div 15
      r == s % 15
  IN [q |-> BigNorm([j \in 1..(Len(x) - k) |->
                       (Limb(x, j + k) \div 2^r)
                       + (Limb(x, j + k + 1) % 2^r) * 2^(15 - r)]),
      inexact |-> Limb(x, k + 1) % 2^r # 0 \/ \E j \in 1..k : Limb(x, j) # 0]

IsOdd(x) == x # << >> /\ x[1] % 2 = 1

\* the limb floor(r / b) < 2^15 of a quotient.  The highest limb of b is at
\* least 2^14, so that the estimate from the two highest limbs of r is at
\* most 2 above it
quotientLimb(r, b) ==
  LET n == Len(b)
      estimate == (Limb(r, n + 1) * 2^15 + Limb(r, n)) \div b[n]
      qhat == IF estimate > 2^15 - 1 THEN 2^15 - 1 ELSE estimate
  IN CHOOSE c \in {qhat, qhat - 1, qhat - 2} :
        /\ c >= 0
        /\ ~BigLess(r, BigMulSmall(b, c))
        /\ (c = qhat \/ BigLess(r, BigMulSmall(b, c + 1)))

\* long division of a by b from limb j of a down: st.q is the quotient and
\* st.r the remainder of the limbs above j
RECURSIVE divLimbs(_, _, _, _)
divLimbs(a, b, j, st) ==
  IF j = 0 THEN st
  ELSE LET Taken(r, limb) ==
             [q |-> << limb >> \o st.q, r |-> BigSub(r, BigMulSmall(b, limb))]
           Shifted(r) == Taken(r, quotientLimb(r, b))
           Down(next) == Strict(next, divLimbs(a, b, j - 1, next))
       IN Down(Shifted(BigNorm(<< a[j] >> \o st.r)))

\* the quotient of a by b, and whether there is a remainder, where the
\* highest limb of b is at least 2^14
divNormalized(a, b) ==
  LET top == IF Len(a) < Len(b) THEN Len(a) ELSE Len(b) - 1
      Result(dm) == [q |-> BigNorm(dm.q), inexact |-> dm.r # << >>]
  IN Result(divLimbs(a, b, Len(a) - top,
                     [q |-> << >>, r |-> SubSeq(a, Len(a) - top + 1, Len(a))]))

\* the quotient of a by b # 0, and whether there is a remainder
BigDivide(a, b) ==
  LET up == 15 - BitsOf(b[Len(b)])
  IN divNormalized(BigShiftLeft(a, up), BigShiftLeft(b, up))

\* A float64 (not negative, not subnormal, finite) is m * 2^e for a natural
\* number m of at most 53 bits.
\* the float64 nearest to (x + d) * 2^e, where 0 < d < 1 when `inexact` and
\* d = 0 otherwise; ties go to the even one.  An inexact x has 55 bits or more.
Float64(x, e, inexact) ==
  IF BitLen(x) <= 53 THEN [m |-> x, e |-> e]
  ELSE LET s == BitLen(x) - 53
           Nearest(half, q) ==
             [m |-> IF IsOdd(half.q) /\ (half.inexact \/ inexact \/ IsOdd(q))
                      THEN BigAdd(q, << 1 >>) ELSE q,
              e |-> e + s]
           Halved(half) == Nearest(half, BigShiftRight(half.q, 1).q)
       IN Halved(BigShiftRight(x, s - 1))

\* float64(x), for a natural number x
Float64Of(x) == Float64(x, 0, FALSE)

\* the float64 nearest to the number x = m * 2^e
Rounded(x) == Float64(x.m, x.e, FALSE)

\* x * y, as the number it is and as the float64 it is rounded to
ExactMul(x, y) == [m |-> BigMul(x.m, y.m), e |-> x.e + y.e]
Float64Mul(x, y) == Rounded(ExactMul(x, y))

\* x + y for numbers m * 2^e, as the number it is
ExactAdd(x, y) ==
  IF x.m = << >> THEN y
  ELSE IF y.m = << >> THEN x
  ELSE LET e == IF x.e < y.e THEN x.e ELSE y.e
       IN [m |-> BigAdd(BigShiftLeft(x.m, x.e - e), BigShiftLeft(y.m, y.e - e)),
           e |-> e]

\* x / y for y # 0: the quotient is taken to 56 bits or more, then rounded
Float64Quo(x, y) ==
  LET s == IF BitLen(y.m) > BitLen(x.m) THEN 56 + BitLen(y.m) - BitLen(x.m) ELSE 56
      Nearest(dm) == Float64(dm.q, x.e - y.e - s, dm.inexact)
  IN Nearest(BigDivide(BigShiftLeft(x.m, s), y.m))

\* uint64(x) and int(x): x without its fraction, as a natural number
Float64Trunc(x) ==
  IF x.e >= 0 THEN BigShiftLeft(x.m, x.e) ELSE BigShiftRight(x.m, -x.e).q

\* the constant 0.01
Point01 == Float64Quo(Float64Of(BigOf(1)), Float64Of(BigOf(100)))

\* the 12 colours of the default palette
DefaultColors ==
  << "#FF0000", "#FF8000", "#FFFF00", "#80FF00",
     "#00FF00", "#00FF80", "#00FFFF", "#0080FF",
     "#0000FF", "#8000FF", "#FF00FF", "#FF0080" >>

\* a palette of p colours: the first p default colours
Palette(p) == SubSeq(DefaultColors, 1, p)

PatternRainbow == "rainbow"
PatternGradient == "gradient"
PatternPulse == "pulse"
PatternWave == "wave"

\* the four patterns, and one value outside the enumeration
Patterns == {PatternRainbow, PatternGradient, PatternPulse, PatternWave, "sparkle"}

\* a nil *domain.AnimationConfig
NilConfig == [isNil |-> TRUE, Colors |-> <<>>, Enabled |-> FALSE, Pattern |-> ""]

AnimationConfig(colors, enabled, pattern) ==
  [isNil |-> FALSE, Colors |-> colors, Enabled |-> enabled, Pattern |-> pattern]

\* a text of n characters, as the caller formats a cost: "$" and digits
TextOfLen(n) == [i \in 1..n |-> IF i = 1 THEN "$" ELSE "9"]

(***************************************************************************)
(* RainbowAnimationPlugin                                                  *)
(***************************************************************************)
NewRainbowAnimationPlugin == [enabled |-> FALSE, frameCount |-> 0]

\* baseColors[colorIndex], Go's 0-based index into a 1-based sequence
At(baseColors, colorIndex) == baseColors[colorIndex + 1]

\* generateRainbowColors with the character index counted from 1
generateRainbowColorsOffByOne(frameNumber, textLength, baseColors) ==
  IF Len(baseColors) = 0 THEN << "#FFFFFF" >>
  ELSE [j \in 1..textLength |->
          At(baseColors, (frameNumber + j) % Len(baseColors))]

\* generateRainbowColors with the frame number left out of the index
generateRainbowColorsNoFrame(frameNumber, textLength, baseColors) ==
  IF Len(baseColors) = 0 THEN << "#FFFFFF" >>
  ELSE [j \in 1..textLength |-> At(baseColors, (j - 1) % Len(baseColors))]

generateRainbowColors(frameNumber, textLength, baseColors) ==
  IF Len(baseColors) = 0 THEN << "#FFFFFF" >>
  ELSE [j \in 1..textLength |->
          At(baseColors, (frameNumber + (j - 1)) % Len(baseColors))]

\* generateGradientColors with the single-character case taken for
\* textLength <= 1
generateGradientColorsShortText(frameNumber, textLength, baseColors) ==
  IF Len(baseColors) = 0 THEN << "#FFFFFF" >>
  ELSE IF textLength <= 1
    THEN << At(baseColors, frameNumber % Len(baseColors)) >>
  ELSE [j \in 1..textLength |->
          At(baseColors,
             ((Len(baseColors) * (100 * (j - 1) + frameNumber * (textLength - 1)))
                \div (100 * (textLength - 1))) % Len(baseColors))]

\* progress := float64(i) / float64(textLength-1)
gradientProgress(i, textLength) ==
  Float64Quo(Float64Of(BigOf(i)), Float64Of(BigOf(textLength - 1)))

\* gradientPos := progress + float64(frameNumber)*0.01.  The language lets a
\* build fuse x*y + z into one operation with one rounding (the compiler
\* does on arm64, ppc64 and s390x, and does not on amd64); `fused` says
\* which of the two the build does: the product is rounded before the
\* addition unless the build fuses the two.
gradientPos(progress, frameNumber, fused) ==
  LET Plus(product) ==
        Rounded(ExactAdd(progress, IF fused THEN product ELSE Rounded(product)))
  IN Plus(ExactMul(Float64Of(BigOf(frameNumber)), Point01))

\* colorIndex := int(gradientPos*float64(len(baseColors))) % len(baseColors)
gradientColorIndex(pos, n) ==
  BigToInt(Float64Trunc(Float64Mul(pos, Float64Of(BigOf(n))))) % n

\* the colour indices of the loop, for the characters i = 0..textLength-1
gradientColorIndices(frameNumber, textLength, n, fused) ==
  [j \in 1..textLength |->
     gradientColorIndex(
       gradientPos(gradientProgress(j - 1, textLength), frameNumber, fused), n)]

\* the colour indices of the frames, text lengths and palette sizes within
\* the bounds of the model, computed once
GradientColorIndices ==
  [frameNumber \in 0..MaxFrame, textLength \in 2..MaxLen, n \in 1..MaxPalette,
   fused \in BOOLEAN |-> gradientColorIndices(frameNumber, textLength, n, fused)]

\* generateGradientColors of a build: for frame numbers >= 0
gradientColors(frameNumber, textLength, baseColors, fused) ==
  IF Len(baseColors) = 0 THEN << "#FFFFFF" >>
  ELSE IF textLength = 1
    THEN << At(baseColors, frameNumber % Len(baseColors)) >>
  ELSE LET Coloured(indices) == [j \in 1..textLength |-> At(baseColors, indices[j])]
       IN Coloured(IF /\ frameNumber \in 0..MaxFrame
                      /\ textLength \in 2..MaxLen
                      /\ Len(baseColors) \in 1..MaxPalette
                     THEN GradientColorIndices[frameNumber, textLength,
                                               Len(baseColors), fused]
                     ELSE gradientColorIndices(frameNumber, textLength,
                                               Len(baseColors), fused))

\* generateGradientColors as a build that does not fuse computes it
generateGradientColors(frameNumber, textLength, baseColors) ==
  gradientColors(frameNumber, textLength, baseColors, FALSE)

\* generateGradientColors as a build that fuses computes it
generateGradientColorsFused(frameNumber, textLength, baseColors) ==
  gradientColors(frameNumber, textLength, baseColors, TRUE)

\* generatePulseColors with the pulse value computed per character
generatePulseColorsPerChar(frameNumber, textLength, baseColors) ==
  IF Len(baseColors) = 0 THEN << "#FFFFFF" >>
  ELSE [j \in 1..textLength |->
          IF Len(baseColors) >= 2
          THEN (IF SinMicro(2 * (frameNumber + j - 1)) > 0
                THEN At(baseColors, 0) ELSE At(baseColors, 1))
          ELSE At(baseColors, 0)]

\* pulseValue = math.Sin(float64(frameNumber) * 0.2)
generatePulseColors(frameNumber, textLength, baseColors) ==
  IF Len(baseColors) = 0 THEN << "#FFFFFF" >>
  ELSE LET pulseValue == SinMicro(2 * frameNumber)
           currentColor ==
             IF Len(baseColors) >= 2
             THEN (IF pulseValue > 0 THEN At(baseColors, 0) ELSE At(baseColors, 1))
             ELSE At(baseColors, 0)
       IN [j \in 1..textLength |-> currentColor]

\* waveValue = math.Sin(float64(frameNumber)*0.1 + float64(i)*0.5);
\* colorIndex = int((waveValue+1)/2*P) % P
generateWaveColors(frameNumber, textLength, baseColors) ==
  IF Len(baseColors) = 0 THEN << "#FFFFFF" >>
  ELSE [j \in 1..textLength |->
          LET waveValue == SinMicro(frameNumber + 5 * (j - 1))
          IN At(baseColors,
                (((waveValue + 1000000) * Len(baseColors)) \div 2000000)
                  % Len(baseColors))]

\* staticColors with one white entry per character of the text
staticColorsPerChar(text) == [j \in 1..Len(text) |-> "#FFFFFF"]

\* the colours of the static frame returned when animation is disabled
staticColors(text) == << "#FFFFFF" >>

\* patternColors with the plugin's own frameCount added to the frame number
patternColorsCounted(r, text, frameNumber, config) ==
  generateRainbowColors(frameNumber + r.frameCount, Len(text), config.Colors)

\* the switch on config.Pattern of GenerateFrame; r is the plugin object
patternColors(r, text, frameNumber, config) ==
  IF config.Pattern = PatternRainbow
    THEN generateRainbowColors(frameNumber, Len(text), config.Colors)
  ELSE IF config.Pattern = PatternGradient
    THEN IF fma THEN generateGradientColorsFused(frameNumber, Len(text), config.Colors)
         ELSE generateGradientColors(frameNumber, Len(text), config.Colors)
  ELSE IF config.Pattern = PatternPulse
    THEN generatePulseColors(frameNumber, Len(text), config.Colors)
  ELSE IF config.Pattern = PatternWave
    THEN generateWaveColors(frameNumber, Len(text), config.Colors)
  ELSE generateRainbowColors(frameNumber, Len(text), config.Colors)

\* a nil *domain.AnimationFrame
NilFrame == [isNil |-> TRUE, Colors |-> <<>>, Text |-> <<>>]

AnimationFrame(colors, text) == [isNil |-> FALSE, Colors |-> colors, Text |-> text]

\* GenerateFrame with the config test made before the enabled test
GenerateFrameConfigFirst(r, text, frameNumber, config) ==
  IF config.isNil
    THEN [frame |-> NilFrame, err |-> "animation config is required",
          frameCount |-> r.frameCount]
  ELSE IF ~r.enabled
    THEN [frame |-> NilFrame, err |-> "plugin is not enabled",
          frameCount |-> r.frameCount]
  ELSE IF ~config.Enabled
    THEN [frame |-> AnimationFrame(staticColors(text), text),
          err |-> "", frameCount |-> r.frameCount]
  ELSE [frame |-> AnimationFrame(patternColors(r, text, frameNumber, config), text),
        err |-> "", frameCount |-> r.frameCount + 1]

\* GenerateFrame: the returned frame and error, and the plugin's frameCount
\* after the call
GenerateFrame(r, text, frameNumber, config) ==
  IF ~r.enabled
    THEN [frame |-> NilFrame, err |-> "plugin is not enabled",
          frameCount |-> r.frameCount]
  ELSE IF config.isNil
    THEN [frame |-> NilFrame, err |-> "animation config is required",
          frameCount |-> r.frameCount]
  ELSE IF ~config.Enabled
    THEN [frame |-> AnimationFrame(staticColors(text), text),
          err |-> "", frameCount |-> r.frameCount]
  ELSE [frame |-> AnimationFrame(patternColors(r, text, frameNumber, config), text),
        err |-> "", frameCount |-> r.frameCount + 1]

\* no GenerateFrame call yet
NoCall == [called |-> FALSE, life |-> "none", frameNumber |-> 0, frameCount |-> 0,
           frame |-> NilFrame, err |-> ""]

\* palettes in which a colour comes twice
RepeatingPalettes ==
  {<< "#FF0000", "#FF0000" >>, << "#FF0000", "#FF8000", "#FF0000" >>}

\* the configs passed to GenerateFrame: nil, the first colours of the default
\* palette with every pattern, a palette of two malformed entries, and
\* palettes that hold a colour twice
AnimConfigs ==
  {NilConfig} \cup
  {AnimationConfig(Palette(p), e, pat) :
     p \in 0..MaxPalette, e \in BOOLEAN, pat \in Patterns} \cup
  {AnimationConfig(<< "red", "#FFF" >>, TRUE, pat) : pat \in Patterns} \cup
  {AnimationConfig(colors, TRUE, PatternRainbow) : colors \in RepeatingPalettes}

Texts == {TextOfLen(n) : n \in 0..MaxLen}

NoSweep == [start |-> 0, n |-> 0, used |-> {}]

(***************************************************************************)
(* RainbowTUIPlugin                                                        *)
(***************************************************************************)
NewRainbowTUIPlugin == [enabled |-> FALSE]

\* the two cells of a glyph row: the block character (3 bytes of UTF-8) and
\* the space (1 byte)
B == "█"
S == " "

\* len(string(ch)): the bytes of one character of a canvas line
ByteLen(ch) == IF ch = B THEN 3 ELSE 1

\* getSmallLetterPatterns: the 7-row glyphs, keyed by character
getSmallLetterPatterns ==
  ("$" :> <<
       << S, S, S, S, B, B, B, S, S >>,
       << S, B, B, B, B, B, B, B, S >>,
       << B, B, B, S, B, B, B, S, S >>,
       << S, B, B, B, B, B, B, B, S >>,
       << S, S, B, B, B, S, B, B, B >>,
       << S, B, B, B, B, B, B, B, S >>,
       << S, S, S, B, B, B, S, S, S >> >>) @@
  ("0" :> <<
       << S, B, B, B, B, B, B, B, S >>,
       << B, B, B, S, S, S, B, B, B >>,
       << B, B, B, S, S, S, B, B, B >>,
       << B, B, B, S, S, S, B, B, B >>,
       << B, B, B, S, S, S, B, B, B >>,
       << B, B, B, S, S, S, B, B, B >>,
       << S, B, B, B, B, B, B, B, S >> >>) @@
  ("1" :> <<
       << S, S, S, B, B, B, S, S, S >>,
       << S, B, B, B, B, B, S, S, S >>,
       << S, S, S, B, B, B, S, S, S >>,
       << S, S, S, B, B, B, S, S, S >>,
       << S, S, S, B, B, B, S, S, S >>,
       << S, S, S, B, B, B, S, S, S >>,
       << S, B, B, B, B, B, B, B, S >> >>) @@
  ("2" :> <<
       << S, B, B, B, B, B, B, B, S >>,
       << B, B, B, S, S, S, B, B, B >>,
       << S, S, S, S, S, S, B, B, B >>,
       << S, B, B, B, B, B, B, B, S >>,
       << B, B, B, S, S, S, S, S, S >>,
       << B, B, B, S, S, S, S, S, S >>,
       << B, B, B, B, B, B, B, B, B >> >>) @@
  ("3" :> <<
       << S, B, B, B, B, B, B, B, S >>,
       << B, B, B, S, S, S, B, B, B >>,
       << S, S, S, S, S, S, B, B, B >>,
       << S, S, S, B, B, B, B, B, S >>,
       << S, S, S, S, S, S, B, B, B >>,
       << B, B, B, S, S, S, B, B, B >>,
       << S, B, B, B, B, B, B, B, S >> >>) @@
  ("4" :> <<
       << B, B, B, S, S, S, B, B, B >>,
       << B, B, B, S, S, S, B, B, B >>,
       << B, B, B, S, S, S, B, B, B >>,
       << B, B, B, B, B, B, B, B, B >>,
       << S, S, S, S, S, S, B, B, B >>,
       << S, S, S, S, S, S, B, B, B >>,
       << S, S, S, S, S, S, B, B, B >> >>) @@
  ("5" :> <<
       << B, B, B, B, B, B, B, B, B >>,
       << B, B, B, S, S, S, S, S, S >>,
       << B, B, B, S, S, S, S, S, S >>,
       << B, B, B, B, B, B, B, B, S >>,
       << S, S, S, S, S, S, B, B, B >>,
       << B, B, B, S, S, S, B, B, B >>,
       << S, B, B, B, B, B, B, B, S >> >>) @@
  ("6" :> <<
       << S, B, B, B, B, B, B, B, S >>,
       << B, B, B, S, S, S, B, B, B >>,
       << B, B, B, S, S, S, S, S, S >>,
       << B, B, B, B, B, B, B, B, S >>,
       << B, B, B, S, S, S, B, B, B >>,
       << B, B, B, S, S, S, B, B, B >>,
       << S, B, B, B, B, B, B, B, S >> >>) @@
  ("7" :> <<
       << B, B, B, B, B, B, B, B, B >>,
       << S, S, S, S, S, S, B, B, B >>,
       << S, S, S, S, S, B, B, B, S >>,
       << S, S, S, S, B, B, B, S, S >>,
       << S, S, S, B, B, B, S, S, S >>,
       << S, S, B, B, B, S, S, S, S >>,
       << S, B, B, B, S, S, S, S, S >> >>) @@
  ("8" :> <<
       << S, B, B, B, B, B, B, B, S >>,
       << B, B, B, S, S, S, B, B, B >>,
       << B, B, B, S, S, S, B, B, B >>,
       << S, B, B, B, B, B, B, B, S >>,
       << B, B, B, S, S, S, B, B, B >>,
       << B, B, B, S, S, S, B, B, B >>,
       << S, B, B, B, B, B, B, B, S >> >>) @@
  ("9" :> <<
       << S, B, B, B, B, B, B, B, S >>,
       << B, B, B, S, S, S, B, B, B >>,
       << B, B, B, S, S, S, B, B, B >>,
       << S, B, B, B, B, B, B, B, B >>,
       << S, S, S, S, S, S, B, B, B >>,
       << B, B, B, S, S, S, B, B, B >>,
       << S, B, B, B, B, B, B, B, S >> >>) @@
  ("." :> <<
       << S, S, S, S, S, S >>,
       << S, S, S, S, S, S >>,
       << S, S, S, S, S, S >>,
       << S, S, S, S, S, S >>,
       << S, S, S, S, S, S >>,
       << S, B, B, B, S, S >>,
       << S, B, B, B, S, S >> >>) @@
  (" " :> <<
       << S, S, S, S, S, S, S, S, S >>,
       << S, S, S, S, S, S, S, S, S >>,
       << S, S, S, S, S, S, S, S, S >>,
       << S, S, S, S, S, S, S, S, S >>,
       << S, S, S, S, S, S, S, S, S >>,
       << S, S, S, S, S, S, S, S, S >>,
       << S, S, S, S, S, S, S, S, S >> >>)

\* getLargeLetterPatterns: the 10-row glyphs, keyed by character
getLargeLetterPatterns ==
  ("$" :> <<
       << S, S, S, S, S, B, B, B, B, S, S, S, S, S >>,
       << S, S, B, B, B, B, B, B, B, B, B, B, B, S >>,
       << S, B, B, B, B, S, B, B, B, S, S, S, S, S >>,
       << B, B, B, B, S, S, B, B, B, B, S, S, S, S >>,
       << S, B, B, B, B, B, B, B, B, B, B, B, S, S >>,
       << S, S, B, B, B, B, B, B, B, B, B, B, B, S >>,
       << S, S, S, S, S, B, B, B, B, S, B, B, B, B >>,
       << B, B, B, B, B, B, B, B, S, S, B, B, B, B >>,
       << S, B, B, B, B, B, B, B, B, B, B, B, S, S >>,
       << S, S, S, S, S, B, B, B, B, S, S, S, S, S >> >>) @@
  ("0" :> <<
       << S, S, B, B, B, B, B, B, B, B, B, B, S, S >>,
       << S, B, B, B, B, S, S, S, S, B, B, B, B, S >>,
       << B, B, B, B, S, S, S, S, S, S, B, B, B, B >>,
       << B, B, B, B, S, S, S, S, S, S, B, B, B, B >>,
       << B, B, B, B, S, S, S, S, S, S, B, B, B, B >>,
       << B, B, B, B, S, S, S, S, S, S, B, B, B, B >>,
       << B, B, B, B, S, S, S, S, S, S, B, B, B, B >>,
       << B, B, B, B, S, S, S, S, S, S, B, B, B, B >>,
       << S, B, B, B, B, S, S, S, S, B, B, B, B, S >>,
       << S, S, B, B, B, B, B, B, B, B, B, B, S, S >> >>) @@
  ("1" :> <<
       << S, S, S, S, S, B, B, B, B, S, S, S, S, S >>,
       << S, S, B, B, B, B, B, B, B, S, S, S, S, S >>,
       << S, S, S, S, S, B, B, B, B, S, S, S, S, S >>,
       << S, S, S, S, S, B, B, B, B, S, S, S, S, S >>,
       << S, S, S, S, S, B, B, B, B, S, S, S, S, S >>,
       << S, S, S, S, S, B, B, B, B, S, S, S, S, S >>,
       << S, S, S, S, S, B, B, B, B, S, S, S, S, S >>,
       << S, S, S, S, S, B, B, B, B, S, S, S, S, S >>,
       << S, S, S, S, S, B, B, B, B, S, S, S, S, S >>,
       << B, B, B, B, B, B, B, B, B, B, B, B, B, B >> >>) @@
  ("2" :> <<
       << S, S, B, B, B, B, B, B, B, B, B, B, B, S >>,
       << S, B, B, B, B, S, S, S, S, S, B, B, B, B >>,
       << S, S, S, S, S, S, S, S, S, S, B, B, B, B >>,
       << S, S, S, S, S, S, S, S, S, B, B, B, B, S >>,
       << S, S, S, S, S, S, S, B, B, B, B, S, S, S >>,
       << S, S, S, S, S, B, B, B, B, S, S, S, S, S >>,
       << S, S, S, B, B, B, B, S, S, S, S, S, S, S >>,
       << S, B, B, B, B, S, S, S, S, S, S, S, S, S >>,
       << B, B, B, B, S, S, S, S, S, S, S, S, S, S >>,
       << B, B, B, B, B, B, B, B, B, B, B, B, B, B >> >>) @@
  ("3" :> <<
       << S, S, B, B, B, B, B, B, B, B, B, B, B, S >>,
       << S, B, B, B, B, S, S, S, S, S, B, B, B, B >>,
       << S, S, S, S, S, S, S, S, S, S, B, B, B, B >>,
       << S, S, S, S, S, S, S, S, S, S, B, B, B, B >>,
       << S, S, S, S, S, B, B, B, B, B, B, B, B, B >>,
       << S, S, S, S, S, S, S, S, S, S, B, B, B, B >>,
       << S, S, S, S, S, S, S, S, S, S, B, B, B, B >>,
       << S, S, S, S, S, S, S, S, S, S, B, B, B, B >>,
       << S, B, B, B, B, S, S, S, S, S, B, B, B, B >>,
       << S, S, B, B, B, B, B, B, B, B, B, B, B, S >> >>) @@
  ("4" :> <<
       << B, B, B, B, S, S, S, S, S, S, B, B, B, B >>,
       << B, B, B, B, S, S, S, S, S, S, B, B, B, B >>,
       << B, B, B, B, S, S, S, S, S, S, B, B, B, B >>,
       << B, B, B, B, S, S, S, S, S, S, B, B, B, B >>,
       << B, B, B, B, B, B, B, B, B, B, B, B, B, B >>,
       << S, S, S, S, S, S, S, S, S, S, B, B, B, B >>,
       << S, S, S, S, S, S, S, S, S, S, B, B, B, B >>,
       << S, S, S, S, S, S, S, S, S, S, B, B, B, B >>,
       << S, S, S, S, S, S, S, S, S, S, B, B, B, B >>,
       << S, S, S, S, S, S, S, S, S, S, B, B, B, B >> >>) @@
  ("5" :> <<
       << B, B, B, B, B, B, B, B, B, B, B, B, B, B >>,
       << B, B, B, B, S, S, S, S, S, S, S, S, S, S >>,
       << B, B, B, B, S, S, S, S, S, S, S, S, S, S >>,
       << B, B, B, B, S, S, S, S, S, S, S, S, S, S >>,
       << B, B, B, B, B, B, B, B, B, B, B, B, B, S >>,
       << S, S, S, S, S, S, S, S, S, S, B, B, B, B >>,
       << S, S, S, S, S, S, S, S, S, S, B, B, B, B >>,
       << S, S, S, S, S, S, S, S, S, S, B, B, B, B >>,
       << S, B, B, B, B, S, S, S, S, S, B, B, B, B >>,
       << S, S, B, B, B, B, B, B, B, B, B, B, B, S >> >>) @@
  ("6" :> <<
       << S, S, B, B, B, B, B, B, B, B, B, B, B, S >>,
       << S, B, B, B, B, S, S, S, S, S, B, B, B, B >>,
       << B, B, B, B, S, S, S, S, S, S, S, S, S, S >>,
       << B, B, B, B, S, S, S, S, S, S, S, S, S, S >>,
       << B, B, B, B, B, B, B, B, B, B, B, B, B, S >>,
       << B, B, B, B, S, S, S, S, S, S, B, B, B, B >>,
       << B, B, B, B, S, S, S, S, S, S, B, B, B, B >>,
       << B, B, B, B, S, S, S, S, S, S, B, B, B, B >>,
       << S, B, B, B, B, S, S, S, S, S, B, B, B, B >>,
       << S, S, B, B, B, B, B, B, B, B, B, B, B, S >> >>) @@
  ("7" :> <<
       << B, B, B, B, B, B, B, B, B, B, B, B, B, B >>,
       << S, S, S, S, S, S, S, S, S, S, B, B, B, B >>,
       << S, S, S, S, S, S, S, S, S, B, B, B, B, S >>,
       << S, S, S, S, S, S, S, S, B, B, B, B, S, S >>,
       << S, S, S, S, S, S, S, B, B, B, B, S, S, S >>,
       << S, S, S, S, S, S, B, B, B, B, S, S, S, S >>,
       << S, S, S, S, S, B, B, B, B, S, S, S, S, S >>,
       << S, S, S, S, B, B, B, B, S, S, S, S, S, S >>,
       << S, S, S, B, B, B, B, S, S, S, S, S, S, S >>,
       << S, S, B, B, B, B, S, S, S, S, S, S, S, S >> >>) @@
  ("8" :> <<
       << S, S, B, B, B, B, B, B, B, B, B, B, S, S >>,
       << S, B, B, B, B, S, S, S, S, B, B, B, B, S >>,
       << B, B, B, B, S, S, S, S, S, S, B, B, B, B >>,
       << S, B, B, B, B, S, S, S, S, B, B, B, B, S >>,
       << S, S, B, B, B, B, B, B, B, B, B, B, S, S >>,
       << S, B, B, B, B, S, S, S, S, B, B, B, B, S >>,
       << B, B, B, B, S, S, S, S, S, S, B, B, B, B >>,
       << B, B, B, B, S, S, S, S, S, S, B, B, B, B >>,
       << S, B, B, B, B, S, S, S, S, B, B, B, B, S >>,
       << S, S, B, B, B, B, B, B, B, B, B, B, S, S >> >>) @@
  ("9" :> <<
       << S, S, B, B, B, B, B, B, B, B, B, B, S, S >>,
       << S, B, B, B, B, S, S, S, S, B, B, B, B, S >>,
       << B, B, B, B, S, S, S, S, S, S, B, B, B, B >>,
       << B, B, B, B, S, S, S, S, S, S, B, B, B, B >>,
       << S, B, B, B, B, B, B, B, B, B, B, B, B, B >>,
       << S, S, S, S, S, S, S, S, S, S, B, B, B, B >>,
       << S, S, S, S, S, S, S, S, S, S, B, B, B, B >>,
       << S, S, S, S, S, S, S, S, S, S, B, B, B, B >>,
       << S, B, B, B, B, S, S, S, S, S, B, B, B, S >>,
       << S, S, B, B, B, B, B, B, B, B, B, B, S, S >> >>) @@
  ("." :> <<
       << S, S, S, S, S, S, S, S, S >>,
       << S, S, S, S, S, S, S, S, S >>,
       << S, S, S, S, S, S, S, S, S >>,
       << S, S, S, S, S, S, S, S, S >>,
       << S, S, S, S, S, S, S, S, S >>,
       << S, S, S, S, S, S, S, S, S >>,
       << S, S, S, S, S, S, S, S, S >>,
       << S, B, B, B, B, B, B, S, S >>,
       << S, B, B, B, B, B, B, S, S >>,
       << S, B, B, B, B, B, B, S, S >> >>) @@
  (" " :> <<
       << S, S, S, S, S, S, S, S, S, S, S, S, S, S >>,
       << S, S, S, S, S, S, S, S, S, S, S, S, S, S >>,
       << S, S, S, S, S, S, S, S, S, S, S, S, S, S >>,
       << S, S, S, S, S, S, S, S, S, S, S, S, S, S >>,
       << S, S, S, S, S, S, S, S, S, S, S, S, S, S >>,
       << S, S, S, S, S, S, S, S, S, S, S, S, S, S >>,
       << S, S, S, S, S, S, S, S, S, S, S, S, S, S >>,
       << S, S, S, S, S, S, S, S, S, S, S, S, S, S >>,
       << S, S, S, S, S, S, S, S, S, S, S, S, S, S >>,
       << S, S, S, S, S, S, S, S, S, S, S, S, S, S >> >>)

DigitChars == << "0", "1", "2", "3", "4", "5", "6", "7", "8", "9" >>

\* the decimal digits of n >= 0, most significant first
RECURSIVE Digits(_)
Digits(n) ==
  IF n < 10 THEN << DigitChars[n + 1] >>
  ELSE Digits(n \div 10) \o Digits(n % 10)

\* fmt.Sprintf("$%.2f", amount) for an amount of `cents` hundredths
FormatCost(cents) ==
  LET a == IF cents < 0 THEN -cents ELSE cents
  IN << "$" >> \o (IF cents < 0 THEN << "-" >> ELSE << >>)
       \o Digits(a \div 100) \o << "." >>
       \o Digits((a % 100) \div 10) \o Digits(a % 10)

\* rasterize with the separator appended after every character
RECURSIVE rasterizeTrailingGap(_, _, _)
rasterizeTrailingGap(text, patterns, numRows) ==
  IF Len(text) = 0 THEN [i \in 1..numRows |-> << >>]
  ELSE LET lines == rasterizeTrailingGap(SubSeq(text, 1, Len(text) - 1), patterns, numRows)
           char == text[Len(text)]
       IN IF char \in DOMAIN patterns
          THEN [i \in 1..numRows |->
                  IF i <= Len(patterns[char])
                  THEN lines[i] \o patterns[char][i] \o << S, S >>
                  ELSE lines[i]]
          ELSE lines

\* rasterize with the separator left out of the last row
RECURSIVE rasterizeRagged(_, _, _)
rasterizeRagged(text, patterns, numRows) ==
  IF Len(text) = 0 THEN [i \in 1..numRows |-> << >>]
  ELSE LET lines == rasterizeRagged(SubSeq(text, 1, Len(text) - 1), patterns, numRows)
           char == text[Len(text)]
       IN IF char \in DOMAIN patterns
          THEN [i \in 1..numRows |->
                  IF i <= Len(patterns[char])
                  THEN (IF Len(lines[i]) > 0 /\ i < numRows
                        THEN lines[i] \o << S, S >> ELSE lines[i])
                       \o patterns[char][i]
                  ELSE lines[i]]
          ELSE lines

\* the loop of generateASCIIArt over the characters of text: each glyph row
\* is appended to its line, followed by two spaces unless the character is
\* the last one; a character without a glyph adds nothing.  The text is
\* ASCII, so the byte offset charIndex is the character's index.
RECURSIVE rasterizePrefix(_, _, _, _)
rasterizePrefix(text, n, patterns, numRows) ==
  IF n = 0 THEN [i \in 1..numRows |-> << >>]
  ELSE LET lines == rasterizePrefix(text, n - 1, patterns, numRows)
           char == text[n]
           charIndex == n - 1
       IN IF char \in DOMAIN patterns
          THEN [i \in 1..numRows |->
                  IF i <= Len(patterns[char])
                  THEN lines[i] \o patterns[char][i]
                       \o (IF charIndex < Len(text) - 1 THEN << S, S >> ELSE << >>)
                  ELSE lines[i]]
          ELSE lines

rasterize(text, patterns, numRows) ==
  rasterizePrefix(text, Len(text), patterns, numRows)

\* generateASCIIArt's choice of the small patterns
useSmallPatterns(width, height) == width < 40 \/ height < 12

\* generateASCIIArt: the canvas as its lines
generateASCIIArt(amount, width, height) ==
  IF useSmallPatterns(width, height)
  THEN rasterize(FormatCost(amount), getSmallLetterPatterns, 7)
  ELSE rasterize(FormatCost(amount), getLargeLetterPatterns, 10)

\* generateASCIIArtWithSize's choice of the small patterns
useSmallPatternsWithSize(width, height) == width < 100 \/ height < 25

\* generateASCIIArtWithSize: the canvas as its lines
generateASCIIArtWithSize(amount, width, height) ==
  IF useSmallPatternsWithSize(width, height)
  THEN rasterize(FormatCost(amount), getSmallLetterPatterns, 7)
  ELSE rasterize(FormatCost(amount), getLargeLetterPatterns, 10)

RECURSIVE MaxLineWidth(_, _)
MaxLineWidth(lines, n) ==
  IF n = 0 THEN 0
  ELSE LET m == MaxLineWidth(lines, n - 1)
       IN IF Len(lines[n]) > m THEN Len(lines[n]) ELSE m

Spaces(n) == [i \in 1..n |-> S]

\* centerASCIIArt with the line width taken in bytes
centerASCIIArtByteWidth(lines, width, height) ==
  LET byteWidth(l) == Len(l) + 2 * Cardinality({j \in 1..Len(l) : l[j] = B})
      maxLineWidth ==
        CHOOSE m \in {byteWidth(lines[i]) : i \in 1..Len(lines)} \cup {0} :
          \A i \in 1..Len(lines) : byteWidth(lines[i]) <= m
      horizontalPadding ==
        IF width > maxLineWidth THEN (width - maxLineWidth) \div 2 ELSE 0
      verticalPadding ==
        IF height > Len(lines) THEN (height - Len(lines)) \div 2 ELSE 0
  IN [i \in 1..verticalPadding |-> << >>]
     \o [i \in 1..Len(lines) |-> Spaces(horizontalPadding) \o lines[i]]
     \o [i \in 1..verticalPadding |-> << >>]

\* centerASCIIArt with the odd column of horizontal padding put on the left
centerASCIIArtCeil(lines, width, height) ==
  LET maxLineWidth == MaxLineWidth(lines, Len(lines))
      horizontalPadding ==
        IF width > maxLineWidth THEN (width - maxLineWidth + 1) \div 2 ELSE 0
      verticalPadding ==
        IF height > Len(lines) THEN (height - Len(lines)) \div 2 ELSE 0
  IN [i \in 1..verticalPadding |-> << >>]
     \o [i \in 1..Len(lines) |-> Spaces(horizontalPadding) \o lines[i]]
     \o [i \in 1..verticalPadding |-> << >>]

\* centerASCIIArt: the lines of the returned string, which starts and ends
\* with verticalPadding line breaks
centerASCIIArt(lines, width, height) ==
  LET maxLineWidth == MaxLineWidth(lines, Len(lines))
      horizontalPadding ==
        IF width > maxLineWidth THEN (width - maxLineWidth) \div 2 ELSE 0
      verticalPadding ==
        IF height > Len(lines) THEN (height - Len(lines)) \div 2 ELSE 0
  IN [i \in 1..verticalPadding |-> << >>]
     \o [i \in 1..Len(lines) |-> Spaces(horizontalPadding) \o lines[i]]
     \o [i \in 1..verticalPadding |-> << >>]

\* a character of the output with its foreground colour ("" when unstyled)
Cell(ch, fg) == [ch |-> ch, fg |-> fg]

\* Plain with every character styled white
PlainWhite(lines) ==
  [i \in 1..Len(lines) |-> [j \in 1..Len(lines[i]) |-> Cell(lines[i][j], "#FFFFFF")]]

\* a string without styling
Plain(lines) == [i \in 1..Len(lines) |-> [j \in 1..Len(lines[i]) |-> Cell(lines[i][j], "")]]

\* len(line): the bytes of the first n characters of a line
ByteLenOf(line, n) == n + 2 * Cardinality({j \in 1..n : line[j] = B})

\* what indexing a slice outside its bounds produces instead of a colour
IndexOutOfRange == "panic: index out of range"

\* animation.Colors[colorIndex]
ColorAt(colors, index) ==
  IF index \in 0..(Len(colors) - 1) THEN colors[index + 1] ELSE IndexOutOfRange

\* the colour index without the reduction modulo the number of colours
colorIndexUnreduced(lineIndex, lineLen, i, n) == lineIndex * lineLen + i

\* colorIndex of applyRainbowColors for the character at byte offset i of
\* line lineIndex, with n colours in the frame
colorIndex(lineIndex, lineLen, i, n) == (lineIndex * lineLen + i) % n

\* the loop body of applyRainbowColors over the characters lo..hi of one
\* line: i is the byte offset `range line` yields for character lo, and the
\* result carries the offset after character hi.  The range is walked in
\* halves, left to right, to keep the evaluation shallow.
RECURSIVE styleRange(_, _, _, _, _, _, _)
styleRange(line, lo, hi, i, lineIndex, lineLen, colors) ==
  IF lo > hi THEN [cells |-> << >>, i |-> i]
  ELSE IF lo = hi
    THEN [cells |-> << Cell(line[lo],
                            ColorAt(colors, colorIndex(lineIndex, lineLen, i, Len(colors)))) >>,
          i |-> i + ByteLen(line[lo])]
  ELSE LET mid == (lo + hi) \div 2
           left == styleRange(line, lo, mid, i, lineIndex, lineLen, colors)
           right == styleRange(line, mid + 1, hi, left.i, lineIndex, lineLen, colors)
       IN [cells |-> left.cells \o right.cells, i |-> right.i]

\* applyRainbowColors; len(line) is the line's length in bytes
applyRainbowColors(lines, animation) ==
  IF animation.isNil \/ Len(animation.Colors) = 0 THEN Plain(lines)
  ELSE [l \in 1..Len(lines) |->
          styleRange(lines[l], 1, Len(lines[l]), 0, l - 1,
                     ByteLenOf(lines[l], Len(lines[l])), animation.Colors).cells]

\* a nil *domain.DisplayData, *domain.CostData, *domain.DisplayConfig
NilData == [isNil |-> TRUE, Cost |-> [isNil |-> TRUE, TotalCost |-> 0],
            Animation |-> NilFrame,
            Config |-> [isNil |-> TRUE, Width |-> 0, Height |-> 0]]
NilCost == [isNil |-> TRUE, TotalCost |-> 0]
NilDisplayConfig == [isNil |-> TRUE, Width |-> 0, Height |-> 0]

CostData(cents) == [isNil |-> FALSE, TotalCost |-> cents]
DisplayConfig(w, h) == [isNil |-> FALSE, Width |-> w, Height |-> h]
DisplayData(cost, animation, config) ==
  [isNil |-> FALSE, Cost |-> cost, Animation |-> animation, Config |-> config]

\* what a call returns: the output string (as lines of cells), the error,
\* whether it panicked instead, and the canvas before centering
Result(output, err, panicked, art) ==
  [output |-> output, err |-> err, panicked |-> panicked, art |-> art]

\* Render with an absent cost reported as an error
RenderCostRequired(r, data) ==
  IF ~r.enabled THEN Result(<< >>, "plugin is not enabled", FALSE, << >>)
  ELSE IF data.isNil THEN Result(<< >>, "display data cannot be nil", FALSE, << >>)
  ELSE IF data.Cost.isNil THEN Result(<< >>, "cost data is required", FALSE, << >>)
  ELSE IF data.Config.isNil THEN Result(<< >>, "", TRUE, << >>)
  ELSE LET asciiArt == generateASCIIArt(data.Cost.TotalCost,
                                        data.Config.Width, data.Config.Height)
           centeredAsciiArt == centerASCIIArt(asciiArt,
                                        data.Config.Width, data.Config.Height)
       IN IF ~data.Animation.isNil
          THEN Result(applyRainbowColors(centeredAsciiArt, data.Animation),
                      "", FALSE, asciiArt)
          ELSE Result(Plain(centeredAsciiArt), "", FALSE, asciiArt)

\* Render of rainbow_tui.go
Render(r, data) ==
  IF ~r.enabled THEN Result(<< >>, "plugin is not enabled", FALSE, << >>)
  ELSE IF data.isNil THEN Result(<< >>, "display data cannot be nil", FALSE, << >>)
  ELSE IF data.Cost.isNil THEN Result(<< >>, "", FALSE, << >>)
  ELSE IF data.Config.isNil THEN Result(<< >>, "", TRUE, << >>)
  ELSE LET asciiArt == generateASCIIArt(data.Cost.TotalCost,
                                        data.Config.Width, data.Config.Height)
           centeredAsciiArt == centerASCIIArt(asciiArt,
                                        data.Config.Width, data.Config.Height)
       IN IF ~data.Animation.isNil
          THEN Result(applyRainbowColors(centeredAsciiArt, data.Animation),
                      "", FALSE, asciiArt)
          ELSE Result(Plain(centeredAsciiArt), "", FALSE, asciiArt)

\* renderLarge of the plugin's other version (renderMedium, renderSmall and
\* renderMinimal have the same body)
renderLarge(data) ==
  IF data.Cost.isNil THEN Result(<< >>, "", FALSE, << >>)
  ELSE LET asciiArt == generateASCIIArtWithSize(data.Cost.TotalCost,
                                        data.Config.Width, data.Config.Height)
           centeredAsciiArt == centerASCIIArt(asciiArt,
                                        data.Config.Width, data.Config.Height)
       IN Result(applyRainbowColors(centeredAsciiArt, data.Animation),
                 "", FALSE, asciiArt)

\* Render of the plugin's other version: every data.Config.Format leads to a
\* render function with renderLarge's body
RenderFormat(r, data) ==
  IF ~r.enabled THEN Result(<< >>, "plugin is not enabled", FALSE, << >>)
  ELSE IF data.isNil THEN Result(<< >>, "display data cannot be nil", FALSE, << >>)
  ELSE IF data.Config.isNil THEN Result(<< >>, "", TRUE, << >>)
  ELSE renderLarge(data)

NoRender == [called |-> FALSE, life |-> "none", version |-> "",
             result |-> Result(<< >>, "", FALSE, << >>)]

(***************************************************************************)
(* ValidateAnimationConfig of the animation plugin.                        *)
(***************************************************************************)
\* the characters of the colour strings the model validates; every one is
\* ASCII, so len(color) is the number of characters
ColorChars ==
  ("#FF0000" :> << "#", "F", "F", "0", "0", "0", "0" >>)
  @@ ("#FF8000" :> << "#", "F", "F", "8", "0", "0", "0" >>)
  @@ ("#FFFF00" :> << "#", "F", "F", "F", "F", "0", "0" >>)
  @@ ("#80FF00" :> << "#", "8", "0", "F", "F", "0", "0" >>)
  @@ ("#00FF00" :> << "#", "0", "0", "F", "F", "0", "0" >>)
  @@ ("#00FF80" :> << "#", "0", "0", "F", "F", "8", "0" >>)
  @@ ("#00FFFF" :> << "#", "0", "0", "F", "F", "F", "F" >>)
  @@ ("#0080FF" :> << "#", "0", "0", "8", "0", "F", "F" >>)
  @@ ("#0000FF" :> << "#", "0", "0", "0", "0", "F", "F" >>)
  @@ ("#8000FF" :> << "#", "8", "0", "0", "0", "F", "F" >>)
  @@ ("#FF00FF" :> << "#", "F", "F", "0", "0", "F", "F" >>)
  @@ ("#FF0080" :> << "#", "F", "F", "0", "0", "8", "0" >>)
  @@ ("#FFFFFF" :> << "#", "F", "F", "F", "F", "F", "F" >>)
  @@ ("#GGGGGG" :> << "#", "G", "G", "G", "G", "G", "G" >>)
  @@ ("red" :> << "r", "e", "d" >>)
  @@ ("#FFF" :> << "#", "F", "F", "F" >>)
  @@ ("FF00000" :> << "F", "F", "0", "0", "0", "0", "0" >>)
  @@ ("#FF00000" :> << "#", "F", "F", "0", "0", "0", "0", "0" >>)
  @@ ("" :> << >>)

\* the colour strings that are not "#" followed by six hexadecimal digits
MalformedColors == {"#GGGGGG", "red", "#FFF", "FF00000", "#FF00000", ""}

\* an AnimationConfig with its Speed, in milliseconds
WithSpeed(config, speed) ==
  [isNil |-> config.isNil, Colors |-> config.Colors, Enabled |-> config.Enabled,
   Pattern |-> config.Pattern, Speed |-> speed]

GetSupportedPatterns ==
  << PatternRainbow, PatternGradient, PatternPulse, PatternWave >>

\* an error of ValidateAnimationConfig: the message and what it is formatted
\* with (the index and the colour, or the pattern); NoError is a nil error
ValidationError(msg, index, arg) == [msg |-> msg, index |-> index, arg |-> arg]
NoError == ValidationError("", 0, "")

\* the test of one palette entry that looks at the length only
colorFormatInvalidLengthOnly(color) == Len(ColorChars[color]) # 7

\* the test of one palette entry: len(color) != 7 || color[0] != '#'
colorFormatInvalid(color) ==
  Len(ColorChars[color]) # 7 \/ ColorChars[color][1] # "#"

\* ValidateAnimationConfig; r is the plugin object, which is not read
ValidateAnimationConfig(r, config) ==
  IF config.isNil
    THEN ValidationError("animation config cannot be nil", 0, "")
  ELSE IF config.Speed <= 0
    THEN ValidationError("animation speed must be positive", 0, "")
  ELSE IF Len(config.Colors) = 0
    THEN ValidationError("at least one color must be specified", 0, "")
  ELSE IF \E i \in 1..Len(config.Colors) : colorFormatInvalid(config.Colors[i])
    THEN LET i == CHOOSE k \in 1..Len(config.Colors) :
                    /\ colorFormatInvalid(config.Colors[k])
                    /\ \A j \in 1..(k - 1) : ~colorFormatInvalid(config.Colors[j])
         IN ValidationError("invalid color format at index", i - 1, config.Colors[i])
  ELSE IF \A p \in 1..Len(GetSupportedPatterns) : config.Pattern # GetSupportedPatterns[p]
    THEN ValidationError("unsupported animation pattern", 0, config.Pattern)
  ELSE NoError

\* no ValidateAnimationConfig call yet on a config
NoValidate == [config |-> NilConfig, called |-> FALSE, err |-> NoError]

(***************************************************************************)
(* centerASCIIArt called on a canvas of the caller, and again on its own   *)
(* result.  A string split at "\n" has at least one line, and joining the  *)
(* lines of a result gives the string the next call splits into the same   *)
(* lines.                                                                  *)
(***************************************************************************)
\* ctr.input is the canvas passed to the most recent call and ctr.out what
\* it returned; ctr.first is what the first call returned
CenterState(canvas, w, h) ==
  [canvas |-> canvas, W |-> w, H |-> h, n |-> 0,
   input |-> canvas, out |-> canvas, first |-> canvas]

NoCenter == CenterState(<< << >> >>, 0, 0)

(***************************************************************************)
(* time.Duration and time.ParseDuration.  A Duration is an int64 count of  *)
(* nanoseconds, held as its sign and its magnitude.                        *)
(***************************************************************************)
Duration(neg, ns) == [neg |-> neg /\ ns # << >>, ns |-> ns]

Nanosecond == << 1 >>
Millisecond == BigOf(1000000)
Second == BigOf(1000000000)

\* n units as a Duration, for an integer n
Times(n, unit) == Duration(n < 0, BigMul(BigOf(IF n < 0 THEN -n ELSE n), unit))

Nanoseconds(n) == Times(n, Nanosecond)
Milliseconds(n) == Times(n, Millisecond)
Seconds(n) == Times(n, Second)

\* d > 0 and a < b on Durations
Positive(d) == ~d.neg /\ d.ns # << >>
DurationLess(a, b) ==
  IF a.neg # b.neg THEN a.neg
  ELSE IF a.neg THEN BigLess(b.ns, a.ns)
  ELSE BigLess(a.ns, b.ns)

IsDigit(c) == \E k \in 1..10 : DigitChars[k] = c
DigitOf(c) == (CHOOSE k \in 1..10 : DigitChars[k] = c) - 1

\* the number of characters of s before the first that is in `stops`
SpanTo(s, stops) ==
  LET at == {j \in 1..Len(s) : stops[s[j]]}
  IN IF at = {} THEN Len(s) ELSE (CHOOSE j \in at : \A k \in at : j <= k) - 1

\* 10^k
RECURSIVE Pow10(_)
Pow10(k) ==
  IF k <= 4 THEN BigOf(10^k) ELSE BigMul(Pow10(k \div 2), Pow10(k - k \div 2))

\* the number that the digits s[lo], ..., s[hi] write
RECURSIVE DecimalValue(_, _, _)
DecimalValue(s, lo, hi) ==
  IF lo > hi THEN << >>
  ELSE IF lo = hi THEN BigOf(DigitOf(s[lo]))
  ELSE BigAdd(BigMul(DecimalValue(s, lo, (lo + hi) \div 2),
                     Pow10(hi - (lo + hi) \div 2)),
              DecimalValue(s, (lo + hi) \div 2 + 1, hi))

TwoTo63 == BigShiftLeft(<< 1 >>, 63)
TwoTo64 == BigShiftLeft(<< 1 >>, 64)

\* leadingInt of the time package: the value of the digits s starts with,
\* the rest of s, and whether the value overflowed.  The loop fails at the
\* first digit that takes the value over 2^63, and the value only grows, so
\* it fails exactly when the digits write a number over 2^63.
leadingInt(s) ==
  LET n == SpanTo(s, [c \in {s[j] : j \in 1..Len(s)} |-> ~IsDigit(c)])
      Value(x) ==
        IF BigLess(TwoTo63, x) THEN [x |-> << >>, rem |-> << >>, err |-> TRUE]
        ELSE [x |-> x, rem |-> SubSeq(s, n + 1, Len(s)), err |-> FALSE]
  IN Value(DecimalValue(s, 1, n))

\* scale of leadingFraction after `digits` digits: 1 multiplied by 10 that
\* many times in float64.  The products up to 10^22 are exact.
RECURSIVE fractionScale(_)
fractionScale(digits) ==
  IF digits <= 22 THEN Float64Of(Pow10(digits))
  ELSE Float64Mul(fractionScale(digits - 1), Float64Of(BigOf(10)))

\* leadingFraction of the time package: the value x of the digits taken,
\* how many were taken, and the rest of s.  The loop takes digits up to the
\* first that would take the value over 2^63 and drops the digits from
\* there on.
leadingFraction(s) ==
  LET n == SpanTo(s, [c \in {s[j] : j \in 1..Len(s)} |-> ~IsDigit(c)])
      Most(fits) == CHOOSE k \in fits : \A l \in fits : l <= k
      Taken(k) ==
        [x |-> DecimalValue(s, 1, k), digits |-> k, rem |-> SubSeq(s, n + 1, Len(s))]
  IN Taken(Most({k \in 0..n : ~BigLess(TwoTo63, DecimalValue(s, 1, k))}))

\* uint64(float64(f) * (float64(unit) / scale)): the nanoseconds of the
\* fraction f/scale of a unit
fractionOf(f, unit, scale) ==
  Float64Trunc(Float64Mul(Float64Of(f), Float64Quo(Float64Of(unit), scale)))

\* unitMap of the time package, each unit as the factors of its count of
\* nanoseconds (the micro sign and the Greek mu are one character each)
unitMap ==
  [u \in {<< "n", "s" >>, << "u", "s" >>, << "µ", "s" >>, << "μ", "s" >>,
          << "m", "s" >>, << "s" >>, << "m" >>, << "h" >>} |->
     CASE u = << "n", "s" >> -> << >>
       [] u \in {<< "u", "s" >>, << "µ", "s" >>, << "μ", "s" >>} -> << 1000 >>
       [] u = << "m", "s" >> -> << 1000, 1000 >>
       [] u = << "s" >> -> << 1000, 1000, 1000 >>
       [] u = << "m" >> -> << 1000, 1000, 1000, 60 >>
       [] u = << "h" >> -> << 1000, 1000, 1000, 60, 60 >>]

\* the product of small factors, and x divided by it
RECURSIVE BigProduct(_)
BigProduct(factors) ==
  IF factors = << >> THEN << 1 >>
  ELSE BigMulSmall(BigProduct(Tail(factors)), factors[1])

RECURSIVE BigDivBy(_, _)
BigDivBy(x, factors) ==
  IF factors = << >> THEN x
  ELSE BigDivBy(BigDivMod(x, factors[1]).q, Tail(factors))

\* the term whose number is int.x and whose fraction is frac, of the unit
\* u: int.x units and the fraction of one, in nanoseconds
termValue(int, frac, u) ==
  LET Plus(unit, whole) ==
        IF frac.x # << >>
          THEN BigAdd(whole, fractionOf(frac.x, unit, fractionScale(frac.digits)))
          ELSE whole
      Of(unit) == Plus(unit, BigMul(int.x, unit))
  IN Of(BigProduct(unitMap[u]))

\* the sum d of the terms before with the value v of a term, as the uint64
\* it is, or an error when the value or the sum is over 2^63
addTerm(d, v, rem) ==
  LET failed == [ok |-> FALSE, d |-> << >>, rem |-> << >>]
      Checked(wrapped) ==
        IF BigLess(TwoTo63, wrapped) THEN failed
        ELSE [ok |-> TRUE, d |-> wrapped, rem |-> rem]
      Wrapped(sum) ==
        Checked(IF BigLess(sum, TwoTo64) THEN sum ELSE BigSub(sum, TwoTo64))
  IN IF BigLess(TwoTo63, v) THEN failed ELSE Wrapped(BigAdd(d, v))

\* one pass of the loop of ParseDuration at a term of s, with the sum d of
\* the terms before it: the sum with the term (a uint64) and the rest of s,
\* or an error.  int is what leadingInt returns, dot says that a "." follows
\* it, frac is what leadingFraction returns after the ".", and u is the unit:
\* the i characters up to the next "." or digit.
parseTerm(s, d) ==
  LET failed == [ok |-> FALSE, d |-> << >>, rem |-> << >>]
      Unit(int, frac, i, u) ==
        IF i = 0 THEN failed
        ELSE IF u \notin DOMAIN unitMap THEN failed
        ELSE IF BigLess(BigDivBy(TwoTo63, unitMap[u]), int.x) THEN failed
        ELSE addTerm(d, termValue(int, frac, u),
                     SubSeq(frac.rem, i + 1, Len(frac.rem)))
      UnitAt(int, frac, i) == Unit(int, frac, i, SubSeq(frac.rem, 1, i))
      Fraction(int, dot, frac) ==
        LET pre == Len(int.rem) # Len(s)
            post == dot /\ Len(frac.rem) # Len(int.rem) - 1
        IN IF ~pre /\ ~post THEN failed
           ELSE UnitAt(int, frac,
                       SpanTo(frac.rem,
                              [c \in {frac.rem[j] : j \in 1..Len(frac.rem)} |->
                                 c = "." \/ IsDigit(c)]))
      Number(int, dot) ==
        IF int.err THEN failed
        ELSE Fraction(int, dot,
                      IF dot THEN leadingFraction(Tail(int.rem))
                      ELSE [x |-> << >>, digits |-> 0, rem |-> int.rem])
      Leading(int) == Number(int, int.rem # << >> /\ int.rem[1] = ".")
  IN IF ~(s[1] = "." \/ IsDigit(s[1])) THEN failed ELSE Leading(leadingInt(s))

\* the loop of ParseDuration over the terms of s
RECURSIVE parseTerms(_, _)
parseTerms(s, d) ==
  IF s = << >> THEN [ok |-> TRUE, d |-> d]
  ELSE LET Rest(term) ==
             IF term.ok THEN parseTerms(term.rem, term.d)
             ELSE [ok |-> FALSE, d |-> << >>]
       IN Rest(parseTerm(s, d))

InvalidDuration == [ok |-> FALSE, d |-> Duration(FALSE, << >>)]

\* time.ParseDuration: whether s is a duration, and the Duration
ParseDuration(s) ==
  LET signed == s # << >> /\ s[1] \in {"-", "+"}
      neg == signed /\ s[1] = "-"
      Terms(terms) ==
        IF ~terms.ok THEN InvalidDuration
        ELSE IF neg THEN [ok |-> TRUE, d |-> Duration(TRUE, terms.d)]
        ELSE IF BigLess(BigSub(TwoTo63, << 1 >>), terms.d) THEN InvalidDuration
        ELSE [ok |-> TRUE, d |-> Duration(FALSE, terms.d)]
      Body(body) ==
        IF body = << "0" >> THEN [ok |-> TRUE, d |-> Duration(FALSE, << >>)]
        ELSE IF body = << >> THEN InvalidDuration
        ELSE Terms(parseTerms(body, << >>))
  IN Body(IF signed THEN Tail(s) ELSE s)

(***************************************************************************)
(* CcusageCliPlugin                                                        *)
(***************************************************************************)
\* a time.Time: the zero value, or t seconds on the model's clock
ZeroTime == [isZero |-> TRUE, at |-> 0]
TimeAt(t) == [isZero |-> FALSE, at |-> t]

NewCcusageCliPlugin ==
  [enabled |-> FALSE,
   ccusagePath |-> << "c", "c", "u", "s", "a", "g", "e" >>,
   timeout |-> Seconds(30),
   cacheTime |-> Seconds(10), lastUpdate |-> ZeroTime, cachedData |-> NilCost]

\* a value of a map[string]interface{}: a string, or something else (in a
\* map whose strings are sequences of characters, NotAString)
StringValue(s) == [isString |-> TRUE, s |-> s]
OtherValue == [isString |-> FALSE, s |-> ""]
NotAString == [isString |-> FALSE, s |-> << >>]

\* a map[string]interface{}: empty, or with the one entry key: value
NoUpdates == [k \in {} |-> OtherValue]
Updates(key, value) == [k \in {key} |-> value]

\* config[key].(string): whether the map holds a string under the key
HoldsString(config, key) == key \in DOMAIN config /\ config[key].isString

\* the duration the map config holds at key: what ParseDuration makes of
\* the string there, and no duration when there is no string
durationAt(config, key) ==
  IF HoldsString(config, key) THEN ParseDuration(config[key].s) ELSE InvalidDuration

\* Initialize of the data source plugin with the map config; a duration is
\* taken over when the map holds a string that ParseDuration accepts
CcusageInitialize(c, config) ==
  LET Set(timeout, cacheTime) ==
        [c EXCEPT
           !.ccusagePath =
              IF HoldsString(config, "ccusage_path") THEN config["ccusage_path"].s
              ELSE @,
           !.timeout = IF timeout.ok THEN timeout.d ELSE @,
           !.cacheTime = IF cacheTime.ok THEN cacheTime.d ELSE @,
           !.enabled = TRUE]
  IN Set(durationAt(config, "timeout"), durationAt(config, "cache_time"))

\* Shutdown that keeps the cached value
CcusageShutdownKeepCache(c) == [c EXCEPT !.enabled = FALSE]

CcusageShutdown(c) == [c EXCEPT !.enabled = FALSE, !.cachedData = NilCost]

\* what running the ccusage command and parsing its output comes to: the
\* command fails, its output is not the expected JSON, or it reports a total
ExecFails == [kind |-> "exec", cost |-> 0]
ParseFails == [kind |-> "parse", cost |-> 0]
Reports(cents) == [kind |-> "ok", cost |-> cents]

\* time.Since(c.lastUpdate) as a call takes it at time t: the longest
\* Duration for the zero time, and else the seconds since.  A time.Time is
\* three words, so a read of c.lastUpdate that races with the assignment of
\* another call can see some words of the old value and some of the new
\* one: the reading is then `torn`, and may be any Duration.
NoSince == [zero |-> TRUE, s |-> 0, torn |-> FALSE]
Since(c, t, torn) ==
  IF torn THEN [zero |-> FALSE, s |-> 0, torn |-> TRUE]
  ELSE IF c.lastUpdate.isZero THEN [zero |-> TRUE, s |-> 0, torn |-> FALSE]
  ELSE [zero |-> FALSE, s |-> t - c.lastUpdate.at, torn |-> FALSE]

\* since < cacheTime for a reading that is not torn; the longest Duration
\* is less than no cache time
sinceFresh(since, cacheTime) ==
  ~since.zero /\ DurationLess(Seconds(since.s), cacheTime)

(***************************************************************************)
(* FetchCostData takes no lock and waits for the command, so a call is a   *)
(* run of steps, one for each read or assignment of a field of the plugin, *)
(* between which the other calls on the plugin take theirs.  The call      *)
(* starts with the read of c.enabled, and is then in flight at one of      *)
(* seven places: "cache" (before the read of c.cachedData for the cache    *)
(* test), "since" (before the read of c.lastUpdate), "fresh" (before the   *)
(* read of c.cacheTime), "hit" (the cache test passed and c.cachedData is  *)
(* read again for the return statement), "exec" (the command runs),        *)
(* "store" (before the assignment to c.cachedData) and "stamp" (before the *)
(* assignment to c.lastUpdate).                                            *)
(***************************************************************************)
\* a call at a place, with the c.cachedData and the time.Since(c.lastUpdate)
\* it read for the cache test and the costData it built from the command's
\* output
FetchAt(stage, seen, costData) ==
  [stage |-> stage, seen |-> seen, since |-> NoSince, costData |-> costData]

\* what a step of a call comes to: the plugin after it, and either the call
\* at its next place or the data and the error returned
Fetching(c, call) ==
  [c |-> c, done |-> FALSE, call |-> call, data |-> NilCost, err |-> ""]
Fetched(c, data, err) ==
  [c |-> c, done |-> TRUE, call |-> FetchAt("", NilCost, NilCost),
   data |-> data, err |-> err]

\* the start of FetchCostData: if !c.enabled
FetchCostDataEnabled(c) ==
  IF ~c.enabled THEN Fetched(c, NilCost, "plugin is not enabled")
  ELSE Fetching(c, FetchAt("cache", NilCost, NilCost))

\* c.cachedData != nil, the left operand of the cache test
FetchCostDataCache(c, call) ==
  IF c.cachedData.isNil THEN Fetching(c, FetchAt("exec", NilCost, NilCost))
  ELSE Fetching(c, FetchAt("since", c.cachedData, NilCost))

\* time.Since(c.lastUpdate) at time t
FetchCostDataSince(c, call, t, torn) ==
  Fetching(c, [FetchAt("fresh", call.seen, NilCost) EXCEPT
                 !.since = Since(c, t, torn)])

\* what ... < c.cacheTime can come to: either value for a torn reading
FetchCostDataFreshness(c, call) ==
  IF call.since.torn THEN BOOLEAN ELSE {sinceFresh(call.since, c.cacheTime)}

\* ... < c.cacheTime, the test having come to `fresh`
FetchCostDataFresh(c, call, fresh) ==
  IF fresh THEN Fetching(c, FetchAt("hit", call.seen, NilCost))
  ELSE Fetching(c, FetchAt("exec", NilCost, NilCost))

\* return c.cachedData, nil: the field as read again, or, when the build
\* keeps the value read for the test, that value
FetchCostDataHit(c, call, reread) ==
  Fetched(c, IF reread THEN c.cachedData ELSE call.seen, "")

\* the command ends in `outcome` and its output is parsed
FetchCostDataRun(c, call, outcome) ==
  IF outcome.kind = "exec"
    THEN Fetched(c, NilCost, "failed to execute ccusage command")
  ELSE IF outcome.kind = "parse"
    THEN Fetched(c, NilCost, "failed to parse ccusage JSON output")
  ELSE Fetching(c, FetchAt("store", NilCost, CostData(outcome.cost)))

\* c.cachedData = costData
FetchCostDataStore(c, call) ==
  Fetching([c EXCEPT !.cachedData = call.costData],
           FetchAt("stamp", NilCost, call.costData))

\* c.lastUpdate = time.Now() at time t, and return costData, nil
FetchCostDataStamp(c, call, t) ==
  Fetched([c EXCEPT !.lastUpdate = TimeAt(t)], call.costData, "")

\* the history of the assignments the calls have made: whether c.cachedData
\* was assigned since the last Shutdown, the value last assigned to it, and
\* the time last assigned to c.lastUpdate
NoStore == [ok |-> FALSE, at |-> ZeroTime, data |-> NilCost]

\* whether, by the history, a value was stored since the last Shutdown and
\* less than cacheTime before the time t
StoredInTime(stored, cacheTime, t) ==
  /\ stored.ok
  /\ ~stored.at.isZero
  /\ DurationLess(Seconds(t - stored.at.at), cacheTime)

\* The history of one call at a time is kept: the watched call, any one of
\* the calls made, from its return to the next call on the plugin.  No
\* watched call has just returned; one that has is recorded with the most
\* recent lifecycle call at its start, what it returned, whether it ran the
\* command, whether another call on the plugin (FetchCostData, Initialize
\* or Shutdown) was made while it ran, whether c.cachedData and
\* c.lastUpdate are as they were at its start, and the history as it was
\* when it took the cache test: whether a value had been stored in time
\* (inTime) and which (cached).  `stored` is the history as it is now.
NoFetch == [called |-> FALSE, life |-> "none", data |-> NilCost, err |-> "",
            ran |-> FALSE, overlapped |-> FALSE, kept |-> TRUE,
            inTime |-> FALSE, cached |-> NilCost, stored |-> NoStore]

\* no watched call has just returned, and the history is `stored`
History(stored) == [NoFetch EXCEPT !.stored = stored]

\* per plugin, no lifecycle call yet
NoLife == [anim |-> "none", disp |-> "none", ds |-> "none"]

(***************************************************************************)
(* The TUI Model: Init, Update and View, with the commands they return.    *)
(* m.registry and m.config are the registry's lookups of the active        *)
(* plugins and the configuration manager's two configs; m.ctx and          *)
(* m.lastUpdate are not read by anything modelled.                         *)
(***************************************************************************)
\* the ConfigManager: cm.config is nil, or has the animation config and a
\* display section (GetDisplayConfig is then never nil)
NilConfigManager == [isNil |-> TRUE, Animation |-> NilConfig]
ConfigManager(animation) == [isNil |-> FALSE, Animation |-> animation]

GetAnimationConfig(cm) == IF cm.isNil THEN NilConfig ELSE cm.Animation

\* the registry: whether the plugin named by config.Plugins is registered,
\* per kind
Registry(dataSource, display, animation) ==
  [DataSource |-> dataSource, Display |-> display, Animation |-> animation]

\* GetActiveDataSource, GetActiveDisplay, GetActiveAnimation: the error
GetActive(cm, found, kind) ==
  IF cm.isNil THEN "no configuration available"
  ELSE IF ~found THEN kind \o " plugin not found"
  ELSE ""

NewModel(registry, config) ==
  [registry |-> registry, config |-> config, width |-> 0, height |-> 0,
   frameCount |-> 0, currentCost |-> NilCost, error |-> "",
   isLoading |-> TRUE, isQuitting |-> FALSE]

\* the messages of the update loop
WindowSizeMsg(w, h) == [type |-> "WindowSizeMsg", Width |-> w, Height |-> h]
KeyMsg(key) == [type |-> "KeyMsg", key |-> key]
costDataMsg(costData, err) == [type |-> "costDataMsg", costData |-> costData, err |-> err]
tickMsg == [type |-> "tickMsg"]
errorMsg(err) == [type |-> "errorMsg", err |-> err]

\* the commands Update returns
CmdNil == "nil"
CmdQuit == "tea.Quit"
CmdFetchCostData == "fetchCostData"
CmdTick == "tick"

\* Update with a tick that leaves the counter alone once the model is quitting
UpdateFrozenOnQuit(m, msg) ==
  IF msg.type = "WindowSizeMsg"
    THEN [m |-> [m EXCEPT !.width = msg.Width, !.height = msg.Height], cmd |-> CmdNil]
  ELSE IF msg.type = "KeyMsg"
    THEN IF msg.key \in {"ctrl+c", "q"}
           THEN [m |-> [m EXCEPT !.isQuitting = TRUE], cmd |-> CmdQuit]
         ELSE IF msg.key = "r"
           THEN [m |-> m, cmd |-> CmdFetchCostData]
         ELSE [m |-> m, cmd |-> CmdNil]
  ELSE IF msg.type = "costDataMsg"
    THEN [m |-> [m EXCEPT !.currentCost = msg.costData, !.error = msg.err,
                          !.isLoading = FALSE],
          cmd |-> CmdNil]
  ELSE IF msg.type = "tickMsg"
    THEN IF m.isQuitting
           THEN [m |-> m, cmd |-> CmdNil]
           ELSE [m |-> [m EXCEPT !.frameCount = @ + 1], cmd |-> CmdTick]
  ELSE IF msg.type = "errorMsg"
    THEN [m |-> [m EXCEPT !.error = msg.err, !.isLoading = FALSE], cmd |-> CmdNil]
  ELSE [m |-> m, cmd |-> CmdNil]

\* Update with a tick that is rescheduled also when the model is quitting
UpdateTickWhileQuitting(m, msg) ==
  IF msg.type = "WindowSizeMsg"
    THEN [m |-> [m EXCEPT !.width = msg.Width, !.height = msg.Height], cmd |-> CmdNil]
  ELSE IF msg.type = "KeyMsg"
    THEN IF msg.key \in {"ctrl+c", "q"}
           THEN [m |-> [m EXCEPT !.isQuitting = TRUE], cmd |-> CmdQuit]
         ELSE IF msg.key = "r"
           THEN [m |-> m, cmd |-> CmdFetchCostData]
         ELSE [m |-> m, cmd |-> CmdNil]
  ELSE IF msg.type = "costDataMsg"
    THEN [m |-> [m EXCEPT !.currentCost = msg.costData, !.error = msg.err,
                          !.isLoading = FALSE],
          cmd |-> CmdNil]
  ELSE IF msg.type = "tickMsg"
    THEN [m |-> [m EXCEPT !.frameCount = @ + 1], cmd |-> CmdTick]
  ELSE IF msg.type = "errorMsg"
    THEN [m |-> [m EXCEPT !.error = msg.err, !.isLoading = FALSE], cmd |-> CmdNil]
  ELSE [m |-> m, cmd |-> CmdNil]

\* Update with a failed cost-data result that keeps the cost held so far
UpdateKeepCostOnError(m, msg) ==
  IF msg.type = "WindowSizeMsg"
    THEN [m |-> [m EXCEPT !.width = msg.Width, !.height = msg.Height], cmd |-> CmdNil]
  ELSE IF msg.type = "KeyMsg"
    THEN IF msg.key \in {"ctrl+c", "q"}
           THEN [m |-> [m EXCEPT !.isQuitting = TRUE], cmd |-> CmdQuit]
         ELSE IF msg.key = "r"
           THEN [m |-> m, cmd |-> CmdFetchCostData]
         ELSE [m |-> m, cmd |-> CmdNil]
  ELSE IF msg.type = "costDataMsg"
    THEN IF msg.err # ""
           THEN [m |-> [m EXCEPT !.error = msg.err, !.isLoading = FALSE], cmd |-> CmdNil]
           ELSE [m |-> [m EXCEPT !.currentCost = msg.costData, !.error = msg.err,
                                 !.isLoading = FALSE],
                 cmd |-> CmdNil]
  ELSE IF msg.type = "tickMsg"
    THEN IF m.isQuitting
           THEN [m |-> [m EXCEPT !.frameCount = @ + 1], cmd |-> CmdNil]
           ELSE [m |-> [m EXCEPT !.frameCount = @ + 1], cmd |-> CmdTick]
  ELSE IF msg.type = "errorMsg"
    THEN [m |-> [m EXCEPT !.error = msg.err, !.isLoading = FALSE], cmd |-> CmdNil]
  ELSE [m |-> m, cmd |-> CmdNil]

\* Update: the model after the message and the command returned
Update(m, msg) ==
  IF msg.type = "WindowSizeMsg"
    THEN [m |-> [m EXCEPT !.width = msg.Width, !.height = msg.Height], cmd |-> CmdNil]
  ELSE IF msg.type = "KeyMsg"
    THEN IF msg.key \in {"ctrl+c", "q"}
           THEN [m |-> [m EXCEPT !.isQuitting = TRUE], cmd |-> CmdQuit]
         ELSE IF msg.key = "r"
           THEN [m |-> m, cmd |-> CmdFetchCostData]
         ELSE [m |-> m, cmd |-> CmdNil]
  ELSE IF msg.type = "costDataMsg"
    THEN [m |-> [m EXCEPT !.currentCost = msg.costData, !.error = msg.err,
                          !.isLoading = FALSE],
          cmd |-> CmdNil]
  ELSE IF msg.type = "tickMsg"
    THEN IF m.isQuitting
           THEN [m |-> [m EXCEPT !.frameCount = @ + 1], cmd |-> CmdNil]
           ELSE [m |-> [m EXCEPT !.frameCount = @ + 1], cmd |-> CmdTick]
  ELSE IF msg.type = "errorMsg"
    THEN [m |-> [m EXCEPT !.error = msg.err, !.isLoading = FALSE], cmd |-> CmdNil]
  ELSE [m |-> m, cmd |-> CmdNil]

\* the function fetchCostData returns, up to its call of FetchCostData:
\* whether it makes the call, and the message it returns when it does not
fetchCostData(m) ==
  LET err == GetActive(m.config, m.registry.DataSource, "data source")
  IN [calls |-> err = "", msg |-> costDataMsg(NilCost, err)]

\* what View returns: which of its return statements was taken, the error
\* text it embeds, the canvas it shows (the controls line is appended to
\* it), whether GenerateFrame was called and with which frame number, and
\* the animation plugin's frameCount after the call
ViewResult(kind, detail, output, generated, frameNumber, frameCount) ==
  [kind |-> kind, detail |-> detail, output |-> output, generated |-> generated,
   frameNumber |-> frameNumber, frameCount |-> frameCount]

\* View with the animation plugin a and the display plugin d
View(m, a, d) ==
  IF m.isQuitting THEN ViewResult("Goodbye", "", << >>, FALSE, 0, a.frameCount)
  ELSE IF m.isLoading THEN ViewResult("Loading cost data", "", << >>, FALSE, 0, a.frameCount)
  ELSE IF m.error # "" THEN ViewResult("Error", m.error, << >>, FALSE, 0, a.frameCount)
  ELSE IF m.currentCost.isNil
    THEN ViewResult("No cost data available", "", << >>, FALSE, 0, a.frameCount)
  ELSE IF GetActive(m.config, m.registry.Animation, "animation") # ""
    THEN ViewResult("Error getting animation plugin",
                    GetActive(m.config, m.registry.Animation, "animation"),
                    << >>, FALSE, 0, a.frameCount)
  ELSE IF GetActive(m.config, m.registry.Display, "display") # ""
    THEN ViewResult("Error getting display plugin",
                    GetActive(m.config, m.registry.Display, "display"),
                    << >>, FALSE, 0, a.frameCount)
  ELSE LET animationConfig == GetAnimationConfig(m.config)
           costText == FormatCost(m.currentCost.TotalCost)
           Rendered(gen, res) ==
             IF res.err # ""
               THEN ViewResult("Error rendering display", res.err, << >>,
                               TRUE, m.frameCount, gen.frameCount)
             ELSE ViewResult("Controls", "", res.output,
                             TRUE, m.frameCount, gen.frameCount)
           Generated(gen) ==
             IF gen.err # ""
               THEN ViewResult("Error generating animation", gen.err, << >>,
                               TRUE, m.frameCount, gen.frameCount)
             ELSE Rendered(gen,
                           Render(d, DisplayData(m.currentCost, gen.frame,
                                                 DisplayConfig(m.width, m.height))))
       IN Generated(GenerateFrame(a, costText, m.frameCount, animationConfig))

\* the commands in flight: Init has run or not, the ticks scheduled and not
\* yet delivered, the fetches scheduled and not yet running, the cost-data
\* messages sent and not yet handled (a bag), whether tea.Quit was
\* returned, and the number of tick messages handled so far
NoCmds ==
  [started |-> FALSE, tick |-> 0, fetch |-> 0, msgs |-> EmptyBag,
   quit |-> FALSE, ticks |-> 0]

\* no View call yet
NoView == [called |-> FALSE, frameCount |-> 0,
           result |-> ViewResult("", "", << >>, FALSE, 0, 0)]

(***************************************************************************)
(* The core configuration: Config, FlagConfig, the flag parsers and        *)
(* the ConfigManager's methods.  A command-line argument, a flag name and  *)
(* a flag value are sequences of characters.                               *)
(***************************************************************************)
ZeroDuration == Duration(FALSE, << >>)

\* a nil *Config, and a Config with its sections
NilCoreConfig ==
  [isNil |-> TRUE,
   App |-> [LogLevel |-> "", RefreshRate |-> ZeroDuration],
   Display |-> [Width |-> 0, Height |-> 0],
   Animation |-> [Enabled |-> FALSE, Speed |-> ZeroDuration, Pattern |-> "",
                  Colors |-> << >>],
   DataSource |-> [CcusagePath |-> "", Timeout |-> ZeroDuration,
                   CacheTime |-> ZeroDuration],
   Plugins |-> [DataSource |-> "", Display |-> "", Animation |-> ""]]

getDefaultConfig ==
  [isNil |-> FALSE,
   App |-> [LogLevel |-> "info", RefreshRate |-> Seconds(1)],
   Display |-> [Width |-> 80, Height |-> 24],
   Animation |-> [Enabled |-> TRUE, Speed |-> Milliseconds(100),
                  Pattern |-> PatternRainbow, Colors |-> DefaultColors],
   DataSource |-> [CcusagePath |-> "ccusage", Timeout |-> Seconds(30),
                   CacheTime |-> Seconds(10)],
   Plugins |-> [DataSource |-> "ccusage-cli", Display |-> "rainbow-display",
                Animation |-> "rainbow-animation"]]

\* a *bool: nil, or a pointer to a value
NilBool == [isNil |-> TRUE, value |-> FALSE]
BoolPtr(b) == [isNil |-> FALSE, value |-> b]

\* a *FlagConfig with its fields, the zero FlagConfig and a nil *FlagConfig
FlagConfig(speed, pattern, enabled, bankruptcy) ==
  [isNil |-> FALSE,
   Animation |-> [Speed |-> speed, Pattern |-> pattern, Enabled |-> enabled],
   Bankruptcy |-> bankruptcy]
ZeroFlagConfig == FlagConfig(ZeroDuration, "", NilBool, FALSE)
NilFlagConfig == [ZeroFlagConfig EXCEPT !.isNil = TRUE]

\* the names of the four flags, and of the help flag
AnimationSpeedName ==
  << "a", "n", "i", "m", "a", "t", "i", "o", "n", "-", "s", "p", "e", "e",
  "d" >>
AnimationPatternName ==
  << "a", "n", "i", "m", "a", "t", "i", "o", "n", "-", "p", "a", "t", "t", "e",
  "r", "n" >>
NoAnimationName ==
  << "n", "o", "-", "a", "n", "i", "m", "a", "t", "i", "o", "n" >>
BankruptcyName == << "b", "a", "n", "k", "r", "u", "p", "t", "c", "y" >>
HelpName == << "h", "e", "l", "p" >>

\* the values of the flags while an argument list is parsed: the two
\* strings, empty at first, and the booleans, false at first (help is the
\* flag cobra defines before it parses for Execute)
NoFlagValues ==
  [speed |-> << >>, pattern |-> << >>, noAnimation |-> FALSE,
   bankruptcy |-> FALSE, help |-> FALSE]

\* the values with the flag `name` set to the string value or to the boolean b
SetFlag(values, name, value, b) ==
  IF name = AnimationSpeedName THEN [values EXCEPT !.speed = value]
  ELSE IF name = AnimationPatternName THEN [values EXCEPT !.pattern = value]
  ELSE IF name = NoAnimationName THEN [values EXCEPT !.noAnimation = b]
  ELSE IF name = HelpName THEN [values EXCEPT !.help = b]
  ELSE [values EXCEPT !.bankruptcy = b]

\* strconv.ParseBool, which the two libraries set a boolean flag with
ParseBool(s) ==
  IF s \in {<< "1" >>,
          << "t" >>,
          << "T" >>,
          << "T", "R", "U", "E" >>,
          << "t", "r", "u", "e" >>,
          << "T", "r", "u", "e" >>}
    THEN [ok |-> TRUE, value |-> TRUE]
  ELSE IF s \in {<< "0" >>,
               << "f" >>,
               << "F" >>,
               << "F", "A", "L", "S", "E" >>,
               << "f", "a", "l", "s", "e" >>,
               << "F", "a", "l", "s", "e" >>}
    THEN [ok |-> TRUE, value |-> FALSE]
  ELSE [ok |-> FALSE, value |-> FALSE]

\* the place of the first "=" of s from place `from` on, 0 when there is none
FirstEquals(s, from) ==
  LET at == {i \in from..Len(s) : s[i] = "="}
  IN IF at = {} THEN 0 ELSE CHOOSE i \in at : \A k \in at : i <= k

\* what parsing an argument list comes to: the flag values and the error
FlagsParsed(values, err) == [values |-> values, err |-> err]

\* Parse of the flag package over the arguments left, one parseOne a pass:
\* parsing stops at the first argument that is not a flag and at "--"; a
\* flag has one or two dashes; a boolean flag takes a value only after "=",
\* a string flag takes the next argument when it has no "="
RECURSIVE flagParse(_, _)
flagParse(args, values) ==
  IF args = << >> THEN FlagsParsed(values, "")
  ELSE LET s == args[1]
           numMinuses == IF s[2] = "-" THEN 2 ELSE 1
           rest == SubSeq(s, numMinuses + 1, Len(s))
           at == FirstEquals(rest, 2)
           hasValue == at # 0
           name == IF hasValue THEN SubSeq(rest, 1, at - 1) ELSE rest
           value == IF hasValue THEN SubSeq(rest, at + 1, Len(rest)) ELSE << >>
       IN IF Len(s) < 2 \/ s[1] # "-" THEN FlagsParsed(values, "")
          ELSE IF s = << "-", "-" >> THEN FlagsParsed(values, "")
          ELSE IF rest = << >> \/ rest[1] \in {"-", "="}
            THEN FlagsParsed(values, "bad flag syntax")
          ELSE IF name \in {NoAnimationName, BankruptcyName}
            THEN IF ~hasValue
                   THEN flagParse(Tail(args), SetFlag(values, name, << >>, TRUE))
                 ELSE IF ~ParseBool(value).ok
                   THEN FlagsParsed(values, "invalid boolean value")
                 ELSE flagParse(Tail(args),
                                SetFlag(values, name, << >>, ParseBool(value).value))
          ELSE IF name \in {AnimationSpeedName, AnimationPatternName}
            THEN IF hasValue
                   THEN flagParse(Tail(args), SetFlag(values, name, value, FALSE))
                 ELSE IF Len(args) >= 2
                   THEN flagParse(Tail(Tail(args)),
                                  SetFlag(values, name, args[2], FALSE))
                 ELSE FlagsParsed(values, "flag needs an argument")
          ELSE IF name \in {HelpName, << "h" >>}
            THEN FlagsParsed(values, "flag: help requested")
          ELSE FlagsParsed(values, "flag provided but not defined")

\* parseShortArg of the pflag library on the letters after the one dash, a
\* parseSingleShortArg a pass: letters that start with "test." are passed
\* over; the only shorthand is h, which cobra defines with its help flag
\* (helpFlag tells whether it has): a boolean, set by the letter alone or by
\* "=" and a value when more than the "=" follows
RECURSIVE pflagShorts(_, _, _)
pflagShorts(shorthands, values, helpFlag) ==
  IF shorthands = << >> THEN FlagsParsed(values, "")
  ELSE IF Len(shorthands) >= 5
            /\ SubSeq(shorthands, 1, 5) = << "t", "e", "s", "t", "." >>
    THEN FlagsParsed(values, "")
  ELSE IF shorthands[1] # "h" THEN FlagsParsed(values, "unknown shorthand flag")
  ELSE IF ~helpFlag THEN FlagsParsed(values, "pflag: help requested")
  ELSE IF Len(shorthands) > 2 /\ shorthands[2] = "="
    THEN IF ParseBool(SubSeq(shorthands, 3, Len(shorthands))).ok
           THEN FlagsParsed(
                  SetFlag(values, HelpName, << >>,
                          ParseBool(SubSeq(shorthands, 3, Len(shorthands))).value),
                  "")
         ELSE FlagsParsed(values, "invalid argument")
  ELSE pflagShorts(Tail(shorthands), SetFlag(values, HelpName, << >>, TRUE),
                   helpFlag)

\* Parse of the pflag library, which cobra's ParseFlags calls: an argument
\* that is not a flag is passed over, "--" ends the flags, a flag has two
\* dashes, and one dash starts shorthand letters.  helpFlag tells whether
\* the help flag is defined: cobra defines it before it parses for Execute,
\* and ParseFlags on its own does not.
RECURSIVE pflagParse(_, _, _)
pflagParse(args, values, helpFlag) ==
  IF args = << >> THEN FlagsParsed(values, "")
  ELSE LET s == args[1]
           rest == SubSeq(s, 3, Len(s))
           at == FirstEquals(rest, 1)
           hasValue == at # 0
           name == IF hasValue THEN SubSeq(rest, 1, at - 1) ELSE rest
           value == IF hasValue THEN SubSeq(rest, at + 1, Len(rest)) ELSE << >>
           Shorts(parsed) ==
             IF parsed.err # "" THEN parsed
             ELSE pflagParse(Tail(args), parsed.values, helpFlag)
       IN IF Len(s) < 2 \/ s[1] # "-" THEN pflagParse(Tail(args), values, helpFlag)
          ELSE IF s = << "-", "-" >> THEN FlagsParsed(values, "")
          ELSE IF s[2] # "-" THEN Shorts(pflagShorts(Tail(s), values, helpFlag))
          ELSE IF rest[1] \in {"-", "="}
            THEN FlagsParsed(values, "bad flag syntax")
          ELSE IF name \in {NoAnimationName, BankruptcyName}
                  \/ (helpFlag /\ name = HelpName)
            THEN IF ~hasValue
                   THEN pflagParse(Tail(args), SetFlag(values, name, << >>, TRUE),
                                   helpFlag)
                 ELSE IF ~ParseBool(value).ok
                   THEN FlagsParsed(values, "invalid argument")
                 ELSE pflagParse(Tail(args),
                                 SetFlag(values, name, << >>, ParseBool(value).value),
                                 helpFlag)
          ELSE IF name \in {AnimationSpeedName, AnimationPatternName}
            THEN IF hasValue
                   THEN pflagParse(Tail(args), SetFlag(values, name, value, FALSE),
                                   helpFlag)
                 ELSE IF Len(args) >= 2
                   THEN pflagParse(Tail(Tail(args)),
                                   SetFlag(values, name, args[2], FALSE), helpFlag)
                 ELSE FlagsParsed(values, "flag needs an argument")
          ELSE IF name = HelpName
            THEN FlagsParsed(values, "pflag: help requested")
          ELSE FlagsParsed(values, "unknown flag")

\* what a parser returns: the FlagConfig (nil with an error) and the error
Parsed(flagConfig, err) == [flagConfig |-> flagConfig, err |-> err]

\* the four pattern names as a flag value writes them
RainbowText == << "r", "a", "i", "n", "b", "o", "w" >>
GradientText == << "g", "r", "a", "d", "i", "e", "n", "t" >>
PulseText == << "p", "u", "l", "s", "e" >>
WaveText == << "w", "a", "v", "e" >>

\* the conversion domain.AnimationPattern(s) of one of the four names
AnimationPattern(text) ==
  CASE text = RainbowText -> PatternRainbow
    [] text = GradientText -> PatternGradient
    [] text = PulseText -> PatternPulse
    [] text = WaveText -> PatternWave

\* parseAnimationPattern of flags.go: the pattern and the error
parseAnimationPattern(pattern) ==
  IF pattern = RainbowText THEN [target |-> PatternRainbow, err |-> ""]
  ELSE IF pattern = GradientText THEN [target |-> PatternGradient, err |-> ""]
  ELSE IF pattern = PulseText THEN [target |-> PatternPulse, err |-> ""]
  ELSE IF pattern = WaveText THEN [target |-> PatternWave, err |-> ""]
  ELSE [target |-> "",
        err |-> "invalid animation pattern: must be rainbow, gradient, pulse, or wave"]

\* processAnimationFlags of flags.go: config after the call and the error.
\* duration is what ParseDuration returns for the speed and target what
\* parseAnimationPattern returns for the pattern.
processAnimationFlags(config, speed, pattern, noAnimation) ==
  LET Pattern(withSpeed, target) ==
        IF pattern # << >> /\ target.err # ""
          THEN Parsed(withSpeed, target.err)
        ELSE Parsed(
               [withSpeed EXCEPT
                  !.Animation.Pattern = IF pattern # << >> THEN target.target ELSE @,
                  !.Animation.Enabled = IF noAnimation THEN BoolPtr(FALSE) ELSE @],
               "")
      Speed(duration) ==
        IF speed # << >> /\ ~duration.ok
          THEN Parsed(config, "invalid animation speed format")
        ELSE Pattern(IF speed # << >>
                       THEN [config EXCEPT !.Animation.Speed = duration.d]
                       ELSE config,
                     parseAnimationPattern(pattern))
  IN Speed(ParseDuration(speed))

\* ParseFlagsFromArgs of flags.go.  The error of the flag package stands
\* for its message, which also names the flag.
ParseFlagsFromArgs(args) ==
  LET Processed(parsed, processed) ==
        IF parsed.err # "" THEN Parsed(NilFlagConfig, parsed.err)
        ELSE IF processed.err # "" THEN Parsed(NilFlagConfig, processed.err)
        ELSE Parsed([processed.flagConfig EXCEPT
                       !.Bankruptcy = parsed.values.bankruptcy], "")
      Flags(parsed) ==
        Processed(parsed,
                  processAnimationFlags(ZeroFlagConfig, parsed.values.speed,
                                        parsed.values.pattern,
                                        parsed.values.noAnimation))
  IN Flags(flagParse(args, NoFlagValues))

\* ParseCobraFlagsFromArgs of cobra_cli.go.  An error stands for its
\* message, which also quotes the flag or the value.
ParseCobraFlagsFromArgs(args) ==
  LET Checked(parsed, speed, pattern, duration) ==
        IF parsed.err # "" THEN Parsed(NilFlagConfig, "failed to parse flags")
        ELSE IF speed # << >> /\ ~duration.ok
          THEN Parsed(NilFlagConfig, "invalid animation speed format")
        ELSE IF pattern # << >> /\ pattern \notin
                  {RainbowText, GradientText, PulseText, WaveText}
          THEN Parsed(NilFlagConfig, "invalid animation pattern")
        ELSE Parsed(FlagConfig(IF speed # << >> THEN duration.d ELSE ZeroDuration,
                               IF pattern # << >> THEN AnimationPattern(pattern)
                               ELSE "",
                               IF parsed.values.noAnimation THEN BoolPtr(FALSE)
                               ELSE NilBool,
                               parsed.values.bankruptcy),
                    "")
      Flags(parsed) ==
        Checked(parsed, parsed.values.speed, parsed.values.pattern,
                ParseDuration(parsed.values.speed))
  IN Flags(pflagParse(args, NoFlagValues, FALSE))

\* convertCobraFlags of root.go on the values cobra parsed into the flag
\* variables.  An error stands for its message, which also quotes the value.
convertCobraFlags(values) ==
  LET Checked(speed, pattern, duration) ==
        IF speed # << >> /\ ~duration.ok
          THEN Parsed(NilFlagConfig, "invalid animation speed format")
        ELSE IF pattern # << >> /\ pattern \notin
                  {RainbowText, GradientText, PulseText, WaveText}
          THEN Parsed(NilFlagConfig, "invalid animation pattern")
        ELSE Parsed(FlagConfig(IF speed # << >> THEN duration.d ELSE ZeroDuration,
                               IF pattern # << >> THEN AnimationPattern(pattern)
                               ELSE "",
                               IF values.noAnimation THEN BoolPtr(FALSE)
                               ELSE NilBool,
                               values.bankruptcy),
                    "")
  IN Checked(values.speed, values.pattern, ParseDuration(values.speed))

\* what a ConfigManager method returns: cm.config after the call, the
\* error, and whether the call panicked instead
Configured(config, err, panicked) ==
  [config |-> config, err |-> err, panicked |-> panicked]

\* ApplyFlagsToConfig that takes an absent Enabled for false
ApplyFlagsToConfigEnabledFromFlag(config, flagConfig) ==
  IF config.isNil THEN Configured(config, "no configuration loaded", FALSE)
  ELSE IF flagConfig.isNil THEN Configured(config, "", TRUE)
  ELSE Configured(
         [config EXCEPT
            !.Animation.Speed =
               IF Positive(flagConfig.Animation.Speed)
                 THEN flagConfig.Animation.Speed ELSE @,
            !.Animation.Pattern =
               IF flagConfig.Animation.Pattern # ""
                 THEN flagConfig.Animation.Pattern ELSE @,
            !.Animation.Enabled =
               ~flagConfig.Animation.Enabled.isNil
               /\ flagConfig.Animation.Enabled.value],
         "", FALSE)

\* ApplyFlagsToConfig that applies every speed other than zero
ApplyFlagsToConfigAnySpeed(config, flagConfig) ==
  IF config.isNil THEN Configured(config, "no configuration loaded", FALSE)
  ELSE IF flagConfig.isNil THEN Configured(config, "", TRUE)
  ELSE Configured(
         [config EXCEPT
            !.Animation.Speed =
               IF flagConfig.Animation.Speed # ZeroDuration
                 THEN flagConfig.Animation.Speed ELSE @,
            !.Animation.Pattern =
               IF flagConfig.Animation.Pattern # ""
                 THEN flagConfig.Animation.Pattern ELSE @,
            !.Animation.Enabled =
               IF ~flagConfig.Animation.Enabled.isNil
                 THEN flagConfig.Animation.Enabled.value ELSE @],
         "", FALSE)

\* ApplyFlagsToConfig.  Reading the fields of a nil flagConfig panics.
ApplyFlagsToConfig(config, flagConfig) ==
  IF config.isNil THEN Configured(config, "no configuration loaded", FALSE)
  ELSE IF flagConfig.isNil THEN Configured(config, "", TRUE)
  ELSE Configured(
         [config EXCEPT
            !.Animation.Speed =
               IF Positive(flagConfig.Animation.Speed)
                 THEN flagConfig.Animation.Speed ELSE @,
            !.Animation.Pattern =
               IF flagConfig.Animation.Pattern # ""
                 THEN flagConfig.Animation.Pattern ELSE @,
            !.Animation.Enabled =
               IF ~flagConfig.Animation.Enabled.isNil
                 THEN flagConfig.Animation.Enabled.value ELSE @],
         "", FALSE)

\* ValidateConfig: the error
ValidateConfig(config) ==
  IF config.isNil THEN "no configuration loaded"
  ELSE IF config.Animation.Pattern \notin
            {PatternRainbow, PatternGradient, PatternPulse, PatternWave}
    THEN "invalid animation pattern"
  ELSE IF config.Display.Width <= 0 \/ config.Display.Height <= 0
    THEN "display dimensions must be positive"
  ELSE IF ~Positive(config.App.RefreshRate) THEN "refresh rate must be positive"
  ELSE IF ~Positive(config.Animation.Speed)
    THEN "animation speed must be positive"
  ELSE ""

\* UpdateConfig; updates is a function from keys to values.  Assigning
\* through a nil cm.config panics.
UpdateConfig(config, updates) ==
  IF "plugins.datasource" \in DOMAIN updates
     /\ updates["plugins.datasource"].isString
    THEN IF config.isNil THEN Configured(config, "", TRUE)
         ELSE Configured([config EXCEPT !.Plugins.DataSource =
                                           updates["plugins.datasource"].s],
                         "", FALSE)
  ELSE Configured(config, "", FALSE)

(***************************************************************************)
(* The plugin registry.  A plugin object is named by an identifier; what   *)
(* the registry sees of it is its Name, Initialize, Shutdown and           *)
(* IsEnabled.                                                              *)
(***************************************************************************)
\* the plugin objects handed to the registry: two CcusageCliPlugin, a
\* BankruptcyDataSourcePlugin, a MockDataSourcePlugin with enabled and
\* shouldError set, two RainbowTUIPlugin and two RainbowAnimationPlugin;
\* and a MockPlugin with enabled set that is registered nowhere
DataSourcePlugins == {"ccusage#1", "ccusage#2", "bankruptcy#1", "mock#1"}
DisplayPlugins == {"display#1", "display#2"}
AnimationPlugins == {"animation#1", "animation#2"}
MockPlugins == {"mock#1", "test#1"}
Plugins ==
  DataSourcePlugins \cup DisplayPlugins \cup AnimationPlugins \cup MockPlugins

\* plugin.Name()
Name(plugin) ==
  CASE plugin \in {"ccusage#1", "ccusage#2"} -> "ccusage-cli"
    [] plugin = "bankruptcy#1" -> "bankruptcy-datasource"
    [] plugin = "mock#1" -> "ccusage-datasource"
    [] plugin = "test#1" -> "test-plugin"
    [] plugin \in DisplayPlugins -> "rainbow-display"
    [] plugin \in AnimationPlugins -> "rainbow-animation"

\* a MockPlugin as the tests construct it (enabled), shouldError as given
MockPlugin(shouldError) ==
  [enabled |-> TRUE, initialized |-> FALSE, shouldError |-> shouldError]

NewBankruptcyDataSourcePlugin == [enabled |-> FALSE]

\* the plugin objects as constructed
NewPlugins ==
  [plugin \in Plugins |->
     CASE plugin \in {"ccusage#1", "ccusage#2"} -> NewCcusageCliPlugin
       [] plugin = "bankruptcy#1" -> NewBankruptcyDataSourcePlugin
       [] plugin = "mock#1" -> MockPlugin(TRUE)
       [] plugin = "test#1" -> MockPlugin(FALSE)
       [] plugin \in DisplayPlugins -> NewRainbowTUIPlugin
       [] plugin \in AnimationPlugins -> NewRainbowAnimationPlugin]

\* no plugin (a nil interface value)
NilPlugin == "nil"

\* what Initialize and Shutdown come to: the object's state after the call
\* and the error
Called(p, err) == [p |-> p, err |-> err]

\* MockPlugin.Initialize and MockPlugin.Shutdown
MockInitialize(p) ==
  IF p.shouldError THEN Called(p, "assert.AnError")
  ELSE Called([p EXCEPT !.initialized = TRUE], "")

MockShutdown(p) ==
  IF p.shouldError THEN Called(p, "assert.AnError")
  ELSE Called([p EXCEPT !.enabled = FALSE], "")

\* plugin.Initialize(config) and plugin.Shutdown() on the object's state p,
\* by the type of the object
PluginInitialize(plugin, p, config) ==
  CASE plugin \in {"ccusage#1", "ccusage#2"} ->
         Called(CcusageInitialize(p, config), "")
    [] plugin \in MockPlugins -> MockInitialize(p)
    [] plugin \in AnimationPlugins ->
         Called([p EXCEPT !.enabled = TRUE, !.frameCount = 0], "")
    [] OTHER -> Called([p EXCEPT !.enabled = TRUE], "")

PluginShutdown(plugin, p) ==
  CASE plugin \in {"ccusage#1", "ccusage#2"} -> Called(CcusageShutdown(p), "")
    [] plugin \in MockPlugins -> MockShutdown(p)
    [] OTHER -> Called([p EXCEPT !.enabled = FALSE], "")

\* the errors of the registry: fmt.Errorf("<kind> plugin '<name>' <msg>")
RegistryError(kind, name, msg) == [kind |-> kind, name |-> name, msg |-> msg]
NoRegistryError == RegistryError("", "", "")

\* a Go map from names to plugins: empty, and with name set to plugin
EmptyMap == [n \in {} |-> NilPlugin]
Put(m, name, plugin) ==
  [n \in DOMAIN m \cup {name} |-> IF n = name THEN plugin ELSE m[n]]

NewPluginRegistry ==
  [dataSources |-> EmptyMap, displays |-> EmptyMap, animations |-> EmptyMap]

\* what a registry method returns: the registry after the call, the plugin
\* returned (if the method returns one) and the error
Registered(pr, plugin, err) == [pr |-> pr, plugin |-> plugin, err |-> err]

\* RegisterDataSource that replaces a plugin of the same name
RegisterDataSourceReplacing(pr, plugin) ==
  Registered([pr EXCEPT !.dataSources = Put(@, Name(plugin), plugin)],
             NilPlugin, NoRegistryError)

RegisterDataSource(pr, plugin) ==
  IF Name(plugin) \in DOMAIN pr.dataSources
    THEN Registered(pr, NilPlugin,
                    RegistryError("data source", Name(plugin), "already registered"))
  ELSE Registered([pr EXCEPT !.dataSources = Put(@, Name(plugin), plugin)],
                  NilPlugin, NoRegistryError)

RegisterDisplay(pr, plugin) ==
  IF Name(plugin) \in DOMAIN pr.displays
    THEN Registered(pr, NilPlugin,
                    RegistryError("display", Name(plugin), "already registered"))
  ELSE Registered([pr EXCEPT !.displays = Put(@, Name(plugin), plugin)],
                  NilPlugin, NoRegistryError)

RegisterAnimation(pr, plugin) ==
  IF Name(plugin) \in DOMAIN pr.animations
    THEN Registered(pr, NilPlugin,
                    RegistryError("animation", Name(plugin), "already registered"))
  ELSE Registered([pr EXCEPT !.animations = Put(@, Name(plugin), plugin)],
                  NilPlugin, NoRegistryError)

GetDataSource(pr, name) ==
  IF name \notin DOMAIN pr.dataSources
    THEN Registered(pr, NilPlugin, RegistryError("data source", name, "not found"))
  ELSE Registered(pr, pr.dataSources[name], NoRegistryError)

GetDisplay(pr, name) ==
  IF name \notin DOMAIN pr.displays
    THEN Registered(pr, NilPlugin, RegistryError("display", name, "not found"))
  ELSE Registered(pr, pr.displays[name], NoRegistryError)

GetAnimation(pr, name) ==
  IF name \notin DOMAIN pr.animations
    THEN Registered(pr, NilPlugin, RegistryError("animation", name, "not found"))
  ELSE Registered(pr, pr.animations[name], NoRegistryError)

\* the plugins in a map
PluginsIn(m) == {m[n] : n \in DOMAIN m}

\* ListPlugins, as a set: the order of a map's entries is not fixed
ListPlugins(pr) ==
  PluginsIn(pr.dataSources) \cup PluginsIn(pr.displays) \cup PluginsIn(pr.animations)

GetPluginCount(pr) ==
  [dataSources |-> Cardinality(DOMAIN pr.dataSources),
   displays |-> Cardinality(DOMAIN pr.displays),
   animations |-> Cardinality(DOMAIN pr.animations)]

\* what ShutdownAll comes to: the plugin objects after it, the plugins whose
\* Shutdown was called, the names in the errors collected, and the error
ShutDown(objects, called, failed) ==
  [plugins |-> objects, called |-> called, failed |-> failed,
   err |-> IF failed # {} THEN RegistryError("", "", "plugin shutdown errors")
           ELSE NoRegistryError]

\* ShutdownAll that returns when a data source plugin's Shutdown has failed
ShutdownAllUntilError(pr, objects) ==
  LET sources == {pr.dataSources[n] : n \in DOMAIN pr.dataSources}
      others == {pr.displays[n] : n \in DOMAIN pr.displays}
                \cup {pr.animations[n] : n \in DOMAIN pr.animations}
      sourceFailed == \E s \in sources : s = "mock#1"
      called == IF sourceFailed THEN sources ELSE sources \cup others
  IN [plugins |-> [q \in DOMAIN objects |->
                     IF q \in called /\ q # "mock#1"
                       THEN PluginShutdown(q, objects[q]).p
                       ELSE objects[q]],
      called |-> called,
      failed |-> {"ccusage-datasource" : q \in called \cap {"mock#1"}},
      err |-> IF sourceFailed
                THEN [kind |-> "", name |-> "", msg |-> "plugin shutdown errors"]
                ELSE [kind |-> "", name |-> "", msg |-> ""]]

\* ShutdownAll on the plugin objects
ShutdownAll(pr, objects) ==
  LET called == ListPlugins(pr)
  IN ShutDown([q \in DOMAIN objects |->
                 IF q \in called THEN PluginShutdown(q, objects[q]).p ELSE objects[q]],
              called,
              {Name(q) : q \in {c \in called : PluginShutdown(c, objects[c]).err # ""}})

\* GetActiveDataSource that looks up the default data source
GetActiveDataSourceDefault(pr, config) ==
  IF config.isNil
    THEN [pr |-> pr, plugin |-> "nil",
          err |-> [kind |-> "", name |-> "", msg |-> "no configuration available"]]
  ELSE IF "ccusage-cli" \notin DOMAIN pr.dataSources
    THEN [pr |-> pr, plugin |-> "nil",
          err |-> [kind |-> "data source", name |-> "ccusage-cli", msg |-> "not found"]]
  ELSE [pr |-> pr, plugin |-> pr.dataSources["ccusage-cli"],
        err |-> [kind |-> "", name |-> "", msg |-> ""]]

\* GetActiveDataSource, GetActiveDisplay, GetActiveAnimation with
\* configManager.GetConfig() = config
GetActiveDataSource(pr, config) ==
  IF config.isNil
    THEN Registered(pr, NilPlugin, RegistryError("", "", "no configuration available"))
  ELSE GetDataSource(pr, config.Plugins.DataSource)

GetActiveDisplay(pr, config) ==
  IF config.isNil
    THEN Registered(pr, NilPlugin, RegistryError("", "", "no configuration available"))
  ELSE GetDisplay(pr, config.Plugins.Display)

GetActiveAnimation(pr, config) ==
  IF config.isNil
    THEN Registered(pr, NilPlugin, RegistryError("", "", "no configuration available"))
  ELSE GetAnimation(pr, config.Plugins.Animation)

\* InitializePlugin on the plugin object's state p: the configuration has
\* no plugin settings, so the plugin gets an empty map
InitializePlugin(config, plugin, p) ==
  IF config.isNil THEN Called(p, "no configuration available")
  ELSE PluginInitialize(plugin, p, NoUpdates)

\* no call on the registry or the ConfigManager yet.  A call is recorded
\* with its arguments (a plugin or a name, an argument list, a FlagConfig,
\* a map of updates), the registry and cm.config it was made on, and what
\* it returned: a plugin and the registry's error, the plugin's own error
\* (InitializePlugin), the plugins whose Shutdown was called and the names
\* of those that failed (ShutdownAll), the parser's, the method's and
\* ValidateConfig's error, and whether the call panicked.  A ShutdownAll
\* is also recorded with the plugin objects as they were before it.
NoCoreCall ==
  [op |-> "none", arg |-> "", args |-> << >>, usage |-> FALSE,
   bankruptcyMode |-> FALSE, flagConfig |-> ZeroFlagConfig,
   updates |-> NoUpdates, registry |-> NewPluginRegistry, objects |-> NewPlugins,
   config |-> NilCoreConfig, plugin |-> NilPlugin, err |-> NoRegistryError,
   pluginErr |-> "", called |-> {}, failed |-> {}, parseErr |-> "",
   configErr |-> "", validateErr |-> "", panicked |-> FALSE]

(***************************************************************************)
(* The parts of a state that a specification does not exercise.            *)
(***************************************************************************)
InitCenterIdle == ctr = NoCenter
InitValidateIdle == val = NoValidate
InitDataSourceIdle ==
  /\ ds = NewCcusageCliPlugin
  /\ dsCall = NoFetch
  /\ fetches = << >>
  /\ now = 0
InitTUIIdle ==
  /\ tui = NewModel(Registry(TRUE, TRUE, TRUE), NilConfigManager)
  /\ cmds = NoCmds
  /\ view = NoView
\* the build of the specifications that do not compare builds: amd64
InitBuildIdle == fma = FALSE

InitCoreIdle ==
  /\ reg = NewPluginRegistry
  /\ plugins = NewPlugins
  /\ cfg = getDefaultConfig
  /\ coreCall = NoCoreCall

Init ==
  /\ anim = NewRainbowAnimationPlugin
  /\ animCfg \in AnimConfigs
  /\ animText \in Texts
  /\ animCall = NoCall
  /\ animPrev = NoCall
  /\ sweep = NoSweep
  /\ disp = NewRainbowTUIPlugin
  /\ dispData = NilData
  /\ dispCall = NoRender
  /\ life = NoLife
  /\ InitCenterIdle
  /\ InitValidateIdle
  /\ InitDataSourceIdle
  /\ InitTUIIdle
  /\ InitCoreIdle
  /\ fma \in BOOLEAN

AnimInitialize ==
  /\ UNCHANGED <<coreVars, buildVars>>
  /\ anim' = [enabled |-> TRUE, frameCount |-> 0]
  /\ UNCHANGED <<animCfg, animText, animCall, animPrev, sweep, disp, dispData, dispCall>>
  /\ life' = [life EXCEPT !.anim = "Initialize"]
  /\ UNCHANGED <<ctrVars, valVars, dsVars, tuiVars>>

AnimShutdown ==
  /\ UNCHANGED <<coreVars, buildVars>>
  /\ anim' = [anim EXCEPT !.enabled = FALSE]
  /\ UNCHANGED <<animCfg, animText, animCall, animPrev, sweep, disp, dispData, dispCall>>
  /\ life' = [life EXCEPT !.anim = "Shutdown"]
  /\ UNCHANGED <<ctrVars, valVars, dsVars, tuiVars>>

CallGenerateFrame(f) ==
  /\ UNCHANGED <<coreVars, buildVars>>
  /\ anim.frameCount < MaxCalls
  /\ LET Returned(res) ==
           /\ anim' = [anim EXCEPT !.frameCount = res.frameCount]
           /\ animCall' = [called |-> TRUE, life |-> life.anim, frameNumber |-> f,
                           frameCount |-> anim.frameCount,
                           frame |-> res.frame, err |-> res.err]
     IN Returned(GenerateFrame(anim, animText, f, animCfg))
  /\ animPrev' = animCall
  /\ UNCHANGED <<animCfg, animText, sweep, disp, dispData, dispCall>>
  /\ UNCHANGED <<life, ctrVars, valVars, dsVars, tuiVars>>

Next ==
  \/ AnimInitialize
  \/ AnimShutdown
  \/ \E f \in 0..MaxFrame : CallGenerateFrame(f)

Spec == Init /\ [][Next]_vars

(***************************************************************************)
(* The display plugin: Initialize, Shutdown and Render on a display data   *)
(* the caller holds.                                                       *)
(***************************************************************************)
\* the costs rendered, in hundredths: $0.05, $42.50, $9999.99 and $-1.50
RenderCosts == {5, 4250, 999999, -150}

\* the viewport sizes rendered
Widths == {30, 39, 40, 99, 100, 120}
Heights == {8, 11, 12, 24, 25, 30}

\* the animation frames passed with a cost whose text is `text`: none, one
\* colour per character (two rotations), the static frame, no colours
FramesFor(text) ==
  {NilFrame,
   AnimationFrame(generateRainbowColors(0, Len(text), DefaultColors), text),
   AnimationFrame(generateRainbowColors(1, Len(text), Palette(3)), text),
   AnimationFrame(staticColors(text), text),
   AnimationFrame(<< >>, text)}

DisplayConfigs ==
  {NilDisplayConfig} \cup {DisplayConfig(w, h) : w \in Widths, h \in Heights}

DisplayInputs ==
  {NilData}
  \cup {DisplayData(NilCost, a, c) :
          a \in {NilFrame, AnimationFrame(staticColors(<< >>), << >>)},
          c \in DisplayConfigs}
  \cup UNION {{DisplayData(CostData(amt), a, c) :
                 a \in FramesFor(FormatCost(amt)), c \in DisplayConfigs} :
              amt \in RenderCosts}

InitDisplay ==
  /\ anim = NewRainbowAnimationPlugin
  /\ animCfg = NilConfig
  /\ animText = << >>
  /\ animCall = NoCall
  /\ animPrev = NoCall
  /\ sweep = NoSweep
  /\ disp = NewRainbowTUIPlugin
  /\ dispData \in DisplayInputs
  /\ dispCall = NoRender
  /\ life = NoLife
  /\ InitCenterIdle
  /\ InitValidateIdle
  /\ InitDataSourceIdle
  /\ InitTUIIdle
  /\ InitCoreIdle
  /\ InitBuildIdle

DispInitialize ==
  /\ UNCHANGED <<coreVars, buildVars>>
  /\ disp' = [disp EXCEPT !.enabled = TRUE]
  /\ UNCHANGED <<anim, animCfg, animText, animCall, animPrev, sweep, dispData, dispCall>>
  /\ life' = [life EXCEPT !.disp = "Initialize"]
  /\ UNCHANGED <<ctrVars, valVars, dsVars, tuiVars>>

DispShutdown ==
  /\ UNCHANGED <<coreVars, buildVars>>
  /\ disp' = [disp EXCEPT !.enabled = FALSE]
  /\ UNCHANGED <<anim, animCfg, animText, animCall, animPrev, sweep, dispData, dispCall>>
  /\ life' = [life EXCEPT !.disp = "Shutdown"]
  /\ UNCHANGED <<ctrVars, valVars, dsVars, tuiVars>>

CallRender ==
  /\ UNCHANGED <<coreVars, buildVars>>
  /\ dispCall' = [called |-> TRUE, life |-> life.disp, version |-> "Render",
                  result |-> Render(disp, dispData)]
  /\ UNCHANGED <<anim, animCfg, animText, animCall, animPrev, sweep, disp, dispData>>
  /\ UNCHANGED <<life, ctrVars, valVars, dsVars, tuiVars>>

CallRenderFormat ==
  /\ UNCHANGED <<coreVars, buildVars>>
  /\ dispCall' = [called |-> TRUE, life |-> life.disp, version |-> "RenderFormat",
                  result |-> RenderFormat(disp, dispData)]
  /\ UNCHANGED <<anim, animCfg, animText, animCall, animPrev, sweep, disp, dispData>>
  /\ UNCHANGED <<life, ctrVars, valVars, dsVars, tuiVars>>

NextDisplay ==
  \/ DispInitialize
  \/ DispShutdown
  \/ CallRender
  \/ CallRenderFormat

SpecDisplay == InitDisplay /\ [][NextDisplay]_vars

(***************************************************************************)
(* A sweep: GenerateFrame called for SweepLen consecutive frame numbers    *)
(* with the pulse pattern and the 12-colour default palette, collecting    *)
(* the colour each frame uses.                                             *)
(***************************************************************************)
PulseConfig12 == AnimationConfig(DefaultColors, TRUE, PatternPulse)

InitPulse ==
  /\ anim = NewRainbowAnimationPlugin
  /\ animCfg = PulseConfig12
  /\ animText = << "$", "9", "9", ".", "9", "9" >>
  /\ animCall = NoCall
  /\ animPrev = NoCall
  /\ sweep \in {[start |-> s, n |-> 0, used |-> {}] : s \in 0..MaxStart}
  /\ disp = NewRainbowTUIPlugin
  /\ dispData = NilData
  /\ dispCall = NoRender
  /\ life = NoLife
  /\ InitCenterIdle
  /\ InitValidateIdle
  /\ InitDataSourceIdle
  /\ InitTUIIdle
  /\ InitCoreIdle
  /\ InitBuildIdle

SweepStep ==
  /\ UNCHANGED <<coreVars, buildVars>>
  /\ sweep.n < SweepLen
  /\ LET f == sweep.start + sweep.n
         Returned(res) ==
           /\ res.err = ""
           /\ anim' = [anim EXCEPT !.frameCount = res.frameCount]
           /\ animCall' = [called |-> TRUE, life |-> life.anim, frameNumber |-> f,
                           frameCount |-> anim.frameCount,
                           frame |-> res.frame, err |-> res.err]
           /\ sweep' = [sweep EXCEPT !.n = @ + 1,
                                     !.used = @ \cup {res.frame.Colors[1]}]
     IN Returned(GenerateFrame(anim, animText, f, animCfg))
  /\ animPrev' = animCall
  /\ UNCHANGED <<animCfg, animText, disp, dispData, dispCall>>
  /\ UNCHANGED <<life, ctrVars, valVars, dsVars, tuiVars>>

NextPulse ==
  \/ AnimInitialize
  \/ SweepStep

SpecPulse == InitPulse /\ [][NextPulse]_vars

(***************************************************************************)
(* The plugins and the TUI model before anything is called on them.        *)
(***************************************************************************)
InitAnimIdle ==
  /\ anim = NewRainbowAnimationPlugin
  /\ animCfg = NilConfig
  /\ animText = << >>
  /\ animCall = NoCall
  /\ animPrev = NoCall
  /\ sweep = NoSweep

InitDisplayIdle ==
  /\ disp = NewRainbowTUIPlugin
  /\ dispData = NilData
  /\ dispCall = NoRender

(***************************************************************************)
(* centerASCIIArt applied to a canvas and then to its own result.          *)
(***************************************************************************)
\* a line of n cells: blank, or blocks and spaces in turn
StripedLine(n) == [i \in 1..n |-> IF i % 2 = 1 THEN B ELSE S]

CanvasLines ==
  {Spaces(n) : n \in 0..MaxCanvasWidth} \cup {StripedLine(n) : n \in 1..MaxCanvasWidth}

\* the canvases centered: 1..MaxCanvasLines lines, ragged ones included
Canvases == UNION {[1..n -> CanvasLines] : n \in 1..MaxCanvasLines}

InitCenter ==
  /\ InitAnimIdle
  /\ InitDisplayIdle
  /\ life = NoLife
  /\ ctr \in {CenterState(c, w, h) :
                c \in Canvases, w \in 0..MaxViewWidth, h \in 0..MaxViewHeight}
  /\ InitValidateIdle
  /\ InitDataSourceIdle
  /\ InitTUIIdle
  /\ InitCoreIdle
  /\ InitBuildIdle

CallCenterASCIIArt ==
  /\ UNCHANGED <<coreVars, buildVars>>
  /\ ctr.n < MaxCenterings
  /\ LET out == centerASCIIArt(ctr.out, ctr.W, ctr.H)
     IN ctr' = [ctr EXCEPT !.n = @ + 1, !.input = ctr.out, !.out = out,
                           !.first = IF ctr.n = 0 THEN out ELSE @]
  /\ UNCHANGED <<animVars, dispVars, life, valVars, dsVars, tuiVars>>

NextCenter == CallCenterASCIIArt

SpecCenter == InitCenter /\ [][NextCenter]_vars

(***************************************************************************)
(* ValidateAnimationConfig called on a config of the caller.               *)
(***************************************************************************)
\* Speed values, in milliseconds
Speeds == {-1, 0, 1, 100}

ValidationPalettes ==
  {Palette(p) : p \in 0..MaxPalette}
  \cup {<< c >> : c \in MalformedColors}
  \cup {<< "#FF0000", c >> : c \in MalformedColors}
  \cup {<< "red", "#FFF", "#FF0000" >>}

ValidationConfigs ==
  {WithSpeed(NilConfig, 0)} \cup
  {WithSpeed(AnimationConfig(colors, e, pat), sp) :
     colors \in ValidationPalettes, e \in BOOLEAN, pat \in Patterns, sp \in Speeds}

InitValidate ==
  /\ InitAnimIdle
  /\ InitDisplayIdle
  /\ life = NoLife
  /\ InitCenterIdle
  /\ val \in {[config |-> c, called |-> FALSE, err |-> NoError] : c \in ValidationConfigs}
  /\ InitDataSourceIdle
  /\ InitTUIIdle
  /\ InitCoreIdle
  /\ InitBuildIdle

CallValidateAnimationConfig ==
  /\ UNCHANGED <<coreVars, buildVars>>
  /\ val' = [val EXCEPT !.called = TRUE,
                        !.err = ValidateAnimationConfig(anim, val.config)]
  /\ UNCHANGED <<animVars, dispVars, life, ctrVars, dsVars, tuiVars>>

NextValidate ==
  \/ AnimInitialize
  \/ AnimShutdown
  \/ CallValidateAnimationConfig

SpecValidate == InitValidate /\ [][NextValidate]_vars

(***************************************************************************)
(* The data source plugin's operations, and the three plugins taken        *)
(* through Initialize and Shutdown with calls in between.                  *)
(***************************************************************************)
\* whether the step leaves c.cachedData and c.lastUpdate as they are
Keeps == ds'.cachedData = ds.cachedData /\ ds'.lastUpdate = ds.lastUpdate

\* a call in flight after a step of another call on the plugin: the watched
\* call is overlapped, and has seen the two fields change if the step
\* changes them
Passed(call) ==
  IF call.watched THEN [call EXCEPT !.overlapped = TRUE, !.kept = @ /\ Keeps]
  ELSE call

\* the calls in flight after a step of a call that is not among them
Overlapped(calls) == [k \in 1..Len(calls) |-> Passed(calls[k])]

\* the calls in flight after a step of the k-th, without it (gone) or with
\* it as `call`
Without(calls, k) ==
  [j \in 1..(Len(calls) - 1) |->
     Passed(IF j < k THEN calls[j] ELSE calls[j + 1])]
With(calls, k, call) ==
  [j \in 1..Len(calls) |->
     IF j # k THEN Passed(calls[j])
     ELSE IF call.watched THEN [call EXCEPT !.kept = @ /\ Keeps]
     ELSE call]

DsInitialize(config) ==
  /\ UNCHANGED <<coreVars, buildVars>>
  /\ ds' = CcusageInitialize(ds, config)
  /\ life' = [life EXCEPT !.ds = "Initialize"]
  /\ dsCall' = History(dsCall.stored)
  /\ fetches' = Overlapped(fetches)
  /\ UNCHANGED <<animVars, dispVars, ctrVars, valVars, now, tuiVars>>

DsShutdown ==
  /\ UNCHANGED <<coreVars, buildVars>>
  /\ ds' = CcusageShutdown(ds)
  /\ life' = [life EXCEPT !.ds = "Shutdown"]
  /\ dsCall' = History([dsCall.stored EXCEPT !.ok = FALSE, !.data = NilCost])
  /\ fetches' = Overlapped(fetches)
  /\ UNCHANGED <<animVars, dispVars, ctrVars, valVars, now, tuiVars>>

\* whether the read of c.lastUpdate by the k-th call in flight races with
\* an assignment: another call is at "stamp"
Torn(k) == \E j \in 1..Len(fetches) : j # k /\ fetches[j].stage = "stamp"

\* the watched call `call` with the history as it is when the call takes
\* the cache test at the time `now`: whether a value was stored in time, and
\* which
Tested(call) ==
  IF call.watched
    THEN [call EXCEPT !.inTime = StoredInTime(dsCall.stored, ds.cacheTime, now),
                      !.cached = dsCall.stored.data]
    ELSE call

\* the k-th call in flight at its next place, the one of the step `res`
Moved(k, res) ==
  [fetches[k] EXCEPT !.stage = res.call.stage, !.seen = res.call.seen,
                     !.since = res.call.since, !.costData = res.call.costData]

\* the record once a call returns data and err, stored being the history
\* after the step
Returning(call, data, err, stored) ==
  IF call.watched
    THEN [called |-> TRUE, life |-> call.life, data |-> data, err |-> err,
          ran |-> call.ran, overlapped |-> call.overlapped,
          kept |-> call.kept /\ Keeps, inTime |-> call.inTime,
          cached |-> call.cached, stored |-> stored]
  ELSE History(stored)

\* the message of a call made by the TUI's fetchCostData goes to the update
\* loop; c is the commands in flight
Delivered(c, call, data, err) ==
  IF call.origin = "tui"
    THEN [c EXCEPT !.msgs = @ (+) SetToBag({costDataMsg(data, err)})]
    ELSE c

\* a call of FetchCostData starts, made by `origin`, watched or not: the
\* enabled test; c is the commands in flight
FetchStarts(origin, watched, c) ==
  /\ watched => \A k \in 1..Len(fetches) : ~fetches[k].watched
  /\ LET res == FetchCostDataEnabled(ds)
         begun == [stage |-> res.call.stage, seen |-> res.call.seen,
                   since |-> res.call.since,
                   costData |-> res.call.costData, origin |-> origin,
                   watched |-> watched, ran |-> FALSE,
                   overlapped |-> watched /\ fetches # << >>,
                   kept |-> TRUE,
                   life |-> IF watched THEN life.ds ELSE "none",
                   inTime |-> FALSE, cached |-> NilCost]
     IN /\ ds' = res.c
        /\ IF res.done
             THEN /\ fetches' = Overlapped(fetches)
                  /\ dsCall' = Returning(begun, res.data, res.err, dsCall.stored)
                  /\ cmds' = Delivered(c, begun, res.data, res.err)
             ELSE /\ fetches' = Append(Overlapped(fetches), begun)
                  /\ dsCall' = History(dsCall.stored)
                  /\ cmds' = c

CallFetchCostData(watched) ==
  /\ UNCHANGED <<coreVars, buildVars>>
  /\ Len(fetches) < MaxInFlight
  /\ FetchStarts("call", watched, cmds)
  /\ UNCHANGED <<animVars, dispVars, life, ctrVars, valVars, now, tui, view>>

\* a call at "cache" reads c.cachedData
FetchReadsCache(k) ==
  /\ UNCHANGED <<coreVars, buildVars>>
  /\ k \in 1..Len(fetches)
  /\ fetches[k].stage = "cache"
  /\ LET res == FetchCostDataCache(ds, fetches[k])
     IN /\ ds' = res.c
        /\ fetches' = With(fetches, k, Tested(Moved(k, res)))
        /\ dsCall' = History(dsCall.stored)
  /\ UNCHANGED <<animVars, dispVars, life, ctrVars, valVars, now, tuiVars>>

\* a call at "since" reads c.lastUpdate and the clock
FetchReadsLastUpdate(k) ==
  /\ UNCHANGED <<coreVars, buildVars>>
  /\ k \in 1..Len(fetches)
  /\ fetches[k].stage = "since"
  /\ LET res == FetchCostDataSince(ds, fetches[k], now, Torn(k))
     IN /\ ds' = res.c
        /\ fetches' = With(fetches, k, Tested(Moved(k, res)))
        /\ dsCall' = History(dsCall.stored)
  /\ UNCHANGED <<animVars, dispVars, life, ctrVars, valVars, now, tuiVars>>

\* a call at "fresh" reads c.cacheTime and ends the cache test
FetchTestsFresh(k) ==
  /\ UNCHANGED <<coreVars, buildVars>>
  /\ k \in 1..Len(fetches)
  /\ fetches[k].stage = "fresh"
  /\ \E fresh \in FetchCostDataFreshness(ds, fetches[k]) :
       LET res == FetchCostDataFresh(ds, fetches[k], fresh)
       IN /\ ds' = res.c
          /\ fetches' = With(fetches, k, Moved(k, res))
          /\ dsCall' = History(dsCall.stored)
  /\ UNCHANGED <<animVars, dispVars, life, ctrVars, valVars, now, tuiVars>>

\* a call at "hit" returns
FetchReturnsCached(k, reread) ==
  /\ UNCHANGED <<coreVars, buildVars>>
  /\ k \in 1..Len(fetches)
  /\ fetches[k].stage = "hit"
  /\ LET res == FetchCostDataHit(ds, fetches[k], reread)
     IN /\ ds' = res.c
        /\ fetches' = Without(fetches, k)
        /\ dsCall' = Returning(fetches[k], res.data, res.err, dsCall.stored)
        /\ cmds' = Delivered(cmds, fetches[k], res.data, res.err)
  /\ UNCHANGED <<animVars, dispVars, life, ctrVars, valVars, now, tui, view>>

\* the command of a call at "exec" ends
FetchCommandEnds(k, outcome) ==
  /\ UNCHANGED <<coreVars, buildVars>>
  /\ k \in 1..Len(fetches)
  /\ fetches[k].stage = "exec"
  /\ LET res == FetchCostDataRun(ds, fetches[k], outcome)
         call == [fetches[k] EXCEPT !.ran = fetches[k].watched]
     IN /\ ds' = res.c
        /\ IF res.done
             THEN /\ fetches' = Without(fetches, k)
                  /\ dsCall' = Returning(call, res.data, res.err, dsCall.stored)
                  /\ cmds' = Delivered(cmds, call, res.data, res.err)
             ELSE /\ fetches' = With(fetches, k,
                                     [call EXCEPT !.stage = res.call.stage,
                                                  !.costData = res.call.costData])
                  /\ dsCall' = History(dsCall.stored)
                  /\ cmds' = cmds
  /\ UNCHANGED <<animVars, dispVars, life, ctrVars, valVars, now, tui, view>>

\* a call at "store" assigns c.cachedData
FetchStores(k) ==
  /\ UNCHANGED <<coreVars, buildVars>>
  /\ k \in 1..Len(fetches)
  /\ fetches[k].stage = "store"
  /\ LET res == FetchCostDataStore(ds, fetches[k])
     IN /\ ds' = res.c
        /\ fetches' = With(fetches, k, [fetches[k] EXCEPT !.stage = res.call.stage])
        /\ dsCall' = History([dsCall.stored EXCEPT
                                 !.ok = TRUE, !.data = res.call.costData])
  /\ UNCHANGED <<animVars, dispVars, life, ctrVars, valVars, now, tuiVars>>

\* a call at "stamp" assigns c.lastUpdate and returns
FetchStamps(k) ==
  /\ UNCHANGED <<coreVars, buildVars>>
  /\ k \in 1..Len(fetches)
  /\ fetches[k].stage = "stamp"
  /\ LET res == FetchCostDataStamp(ds, fetches[k], now)
     IN /\ ds' = res.c
        /\ fetches' = Without(fetches, k)
        /\ dsCall' = Returning(fetches[k], res.data, res.err,
                               [dsCall.stored EXCEPT !.at = TimeAt(now)])
        /\ cmds' = Delivered(cmds, fetches[k], res.data, res.err)
  /\ UNCHANGED <<animVars, dispVars, life, ctrVars, valVars, now, tui, view>>

\* the arguments of the calls made between the lifecycle calls
LifecycleText == FormatCost(5)
LifecycleConfigs ==
  {NilConfig,
   AnimationConfig(Palette(2), FALSE, PatternRainbow),
   AnimationConfig(Palette(2), TRUE, PatternRainbow)}
LifecycleData ==
  {NilData,
   DisplayData(NilCost, NilFrame, NilDisplayConfig),
   DisplayData(CostData(5), NilFrame, DisplayConfig(30, 8))}
LifecycleOutcomes == {ExecFails, Reports(5)}

InitLifecycle ==
  /\ anim = NewRainbowAnimationPlugin
  /\ animCfg \in LifecycleConfigs
  /\ animText = LifecycleText
  /\ animCall = NoCall
  /\ animPrev = NoCall
  /\ sweep = NoSweep
  /\ disp = NewRainbowTUIPlugin
  /\ dispData \in LifecycleData
  /\ dispCall = NoRender
  /\ life = NoLife
  /\ InitCenterIdle
  /\ InitValidateIdle
  /\ InitDataSourceIdle
  /\ InitTUIIdle
  /\ InitCoreIdle
  /\ InitBuildIdle

NextLifecycle ==
  \/ AnimInitialize
  \/ AnimShutdown
  \/ CallGenerateFrame(0)
  \/ DispInitialize
  \/ DispShutdown
  \/ CallRender
  \/ DsInitialize(NoUpdates)
  \/ DsShutdown
  \/ CallFetchCostData(TRUE)
  \/ \E k \in 1..MaxInFlight : FetchReadsCache(k)
  \/ \E k \in 1..MaxInFlight : FetchReadsLastUpdate(k)
  \/ \E k \in 1..MaxInFlight : FetchTestsFresh(k)
  \/ \E k \in 1..MaxInFlight, reread \in BOOLEAN : FetchReturnsCached(k, reread)
  \/ \E k \in 1..MaxInFlight, o \in LifecycleOutcomes : FetchCommandEnds(k, o)
  \/ \E k \in 1..MaxInFlight : FetchStores(k)
  \/ \E k \in 1..MaxInFlight : FetchStamps(k)

SpecLifecycle == InitLifecycle /\ [][NextLifecycle]_vars

(***************************************************************************)
(* The TUI program: the model started by Init, fed the messages of the     *)
(* terminal and of its own commands, and drawn by View at any point.  The  *)
(* plugins were registered and initialized before the model was created.   *)
(***************************************************************************)
TUIRegistries ==
  {Registry(TRUE, TRUE, TRUE), Registry(FALSE, TRUE, TRUE),
   Registry(TRUE, FALSE, TRUE), Registry(TRUE, TRUE, FALSE)}

TUIConfigs ==
  {NilConfigManager,
   ConfigManager(WithSpeed(AnimationConfig(Palette(3), TRUE, PatternRainbow), 100)),
   ConfigManager(WithSpeed(AnimationConfig(Palette(3), FALSE, PatternRainbow), 100))}

\* the terminal sizes reported, the keys pressed, the totals ccusage reports
\* (in hundredths) and the errors sent as errorMsg
TUISizes == {<<30, 8>>, <<120, 30>>}
TUIKeys == {"q", "ctrl+c", "r", "x"}
TUIOutcomes == {ExecFails, ParseFails, Reports(425)}
TUIErrors == {"terminal error"}

\* cache times as a plugin's configuration writes them
ZeroSeconds == << "0", "s" >>
TwoSeconds == << "2", "s" >>

InitTUI ==
  /\ anim = [enabled |-> TRUE, frameCount |-> 0]
  /\ animCfg = NilConfig
  /\ animText = << >>
  /\ animCall = NoCall
  /\ animPrev = NoCall
  /\ sweep = NoSweep
  /\ disp = [enabled |-> TRUE]
  /\ dispData = NilData
  /\ dispCall = NoRender
  /\ life = [anim |-> "Initialize", disp |-> "Initialize", ds |-> "Initialize"]
  /\ InitCenterIdle
  /\ InitValidateIdle
  /\ ds \in {CcusageInitialize(NewCcusageCliPlugin, config) :
               config \in {NoUpdates, Updates("cache_time", StringValue(ZeroSeconds))}}
  /\ dsCall = NoFetch
  /\ fetches = << >>
  /\ now = 0
  /\ tui \in {NewModel(registry, cm) : registry \in TUIRegistries, cm \in TUIConfigs}
  /\ cmds = NoCmds
  /\ view = NoView
  /\ InitCoreIdle
  /\ InitBuildIdle

\* Init: the batch of fetchCostData and tick
TuiInit ==
  /\ UNCHANGED <<coreVars, buildVars>>
  /\ ~cmds.started
  /\ cmds' = [cmds EXCEPT !.started = TRUE, !.fetch = 1, !.tick = 1]
  /\ UNCHANGED <<animVars, dispVars, life, ctrVars, valVars, dsVars, tui, view>>

\* the commands in flight after Update returned cmd
Scheduled(c, cmd) ==
  IF cmd = CmdTick THEN [c EXCEPT !.tick = @ + 1]
  ELSE IF cmd = CmdFetchCostData THEN [c EXCEPT !.fetch = @ + 1]
  ELSE IF cmd = CmdQuit THEN [c EXCEPT !.quit = TRUE]
  ELSE c

HandleWindowSize(w, h) ==
  /\ UNCHANGED <<coreVars, buildVars>>
  /\ cmds.started
  /\ LET upd == Update(tui, WindowSizeMsg(w, h))
     IN /\ tui' = upd.m
        /\ cmds' = Scheduled(cmds, upd.cmd)
  /\ view' = NoView
  /\ UNCHANGED <<animVars, dispVars, life, ctrVars, valVars, dsVars>>

HandleKey(key) ==
  /\ UNCHANGED <<coreVars, buildVars>>
  /\ cmds.started
  /\ key = "r" =>
       cmds.fetch + Len(fetches) + BagCardinality(cmds.msgs) < MaxFetches
  /\ LET upd == Update(tui, KeyMsg(key))
     IN /\ tui' = upd.m
        /\ cmds' = Scheduled(cmds, upd.cmd)
  /\ view' = NoView
  /\ UNCHANGED <<animVars, dispVars, life, ctrVars, valVars, dsVars>>

\* a scheduled fetchCostData starts to run, in a goroutine of its own: it
\* returns its message at once when there is no active data source, and
\* calls FetchCostData otherwise
RunFetchCostData ==
  /\ UNCHANGED <<coreVars, buildVars>>
  /\ cmds.fetch > 0
  /\ IF fetchCostData(tui).calls
       THEN FetchStarts("tui", FALSE, [cmds EXCEPT !.fetch = @ - 1])
       ELSE /\ cmds' = [cmds EXCEPT !.fetch = @ - 1,
                                    !.msgs = @ (+) SetToBag({fetchCostData(tui).msg})]
            /\ UNCHANGED <<ds, dsCall, fetches>>
  /\ UNCHANGED <<animVars, dispVars, life, ctrVars, valVars, now, tui, view>>

\* the update loop handles a cost-data message sent to it
HandleCostData(msg) ==
  /\ UNCHANGED <<coreVars, buildVars>>
  /\ BagIn(msg, cmds.msgs)
  /\ LET upd == Update(tui, msg)
     IN /\ tui' = upd.m
        /\ cmds' = Scheduled([cmds EXCEPT !.msgs = @ (-) SetToBag({msg})], upd.cmd)
  /\ view' = NoView
  /\ UNCHANGED <<animVars, dispVars, life, ctrVars, valVars, dsVars>>

\* a scheduled tick fires and its message is handled
HandleTick ==
  /\ UNCHANGED <<coreVars, buildVars>>
  /\ cmds.tick > 0
  /\ tui.frameCount < MaxTicks
  /\ LET upd == Update(tui, tickMsg)
     IN /\ tui' = upd.m
        /\ cmds' = Scheduled([cmds EXCEPT !.tick = @ - 1, !.ticks = @ + 1], upd.cmd)
  /\ view' = NoView
  /\ UNCHANGED <<animVars, dispVars, life, ctrVars, valVars, dsVars>>

HandleError(err) ==
  /\ UNCHANGED <<coreVars, buildVars>>
  /\ cmds.started
  /\ LET upd == Update(tui, errorMsg(err))
     IN /\ tui' = upd.m
        /\ cmds' = Scheduled(cmds, upd.cmd)
  /\ view' = NoView
  /\ UNCHANGED <<animVars, dispVars, life, ctrVars, valVars, dsVars>>

CallView ==
  /\ UNCHANGED <<coreVars, buildVars>>
  /\ cmds.started
  /\ anim.frameCount < MaxCalls
  /\ LET Returned(res) ==
           /\ view' = [called |-> TRUE, frameCount |-> tui.frameCount, result |-> res]
           /\ anim' = [anim EXCEPT !.frameCount = res.frameCount]
     IN Returned(View(tui, anim, disp))
  /\ UNCHANGED <<animCfg, animText, animCall, animPrev, sweep>>
  /\ UNCHANGED <<dispVars, life, ctrVars, valVars, dsVars, tui, cmds>>

NextTUI ==
  \/ TuiInit
  \/ \E size \in TUISizes : HandleWindowSize(size[1], size[2])
  \/ \E key \in TUIKeys : HandleKey(key)
  \/ RunFetchCostData
  \/ \E k \in 1..MaxInFlight : FetchReadsCache(k)
  \/ \E k \in 1..MaxInFlight : FetchReadsLastUpdate(k)
  \/ \E k \in 1..MaxInFlight : FetchTestsFresh(k)
  \/ \E k \in 1..MaxInFlight, reread \in BOOLEAN : FetchReturnsCached(k, reread)
  \/ \E k \in 1..MaxInFlight, o \in TUIOutcomes : FetchCommandEnds(k, o)
  \/ \E k \in 1..MaxInFlight : FetchStores(k)
  \/ \E k \in 1..MaxInFlight : FetchStamps(k)
  \/ \E msg \in BagToSet(cmds.msgs) : HandleCostData(msg)
  \/ HandleTick
  \/ \E e \in TUIErrors : HandleError(e)
  \/ CallView

SpecTUI == InitTUI /\ [][NextTUI]_vars

(***************************************************************************)
(* Claims about the colour pattern engine.                                 *)
(***************************************************************************)
\* a GenerateFrame call that returned a frame
Returned(c) == c.called /\ c.err = ""

\* the last call ran one of the patterns: the plugin and the animation were
\* enabled and the palette was not empty
PatternCall(c) ==
  /\ Returned(c)
  /\ animCfg.Enabled
  /\ Len(animCfg.Colors) >= 1

\* C1: over SweepLen = 100 consecutive frame numbers the pulse pattern with
\* the 12-colour palette uses at least 6 distinct colours.
C1_PulseVisitsSixColors ==
  sweep.n = SweepLen => Cardinality(sweep.used) >= 6

\* C2 as stated: with animation disabled GenerateFrame returns "#FFFFFF"
\* once per character of the text.
C2_DisabledWhitePerChar ==
  (Returned(animCall) /\ ~animCfg.Enabled) =>
     animCall.frame.Colors = [j \in 1..Len(animText) |-> "#FFFFFF"]

\* C2 amended: with animation disabled GenerateFrame returns the one-entry
\* list <<"#FFFFFF">>, whatever the text length, pattern, palette and frame.
C2_DisabledOneWhite ==
  (Returned(animCall) /\ ~animCfg.Enabled) =>
     /\ animCall.frame.Colors = << "#FFFFFF" >>
     /\ animCall.frame.Text = animText

C2_Witness ==
  /\ Returned(animCall)
  /\ ~animCfg.Enabled
  /\ Len(animText) = 4
  /\ Len(animCfg.Colors) = 3
  /\ animCall.frame.Colors = << "#FFFFFF" >>

\* C5: the cycling pattern gives colours[i] = palette[(f + i) mod P] for
\* every i in 0..N-1.
C5_Cycling ==
  (PatternCall(animCall) /\ animCfg.Pattern = PatternRainbow) =>
     /\ Len(animCall.frame.Colors) = Len(animText)
     /\ \A i \in 0..(Len(animText) - 1) :
          animCall.frame.Colors[i + 1] =
            animCfg.Colors[((animCall.frameNumber + i) % Len(animCfg.Colors)) + 1]

C5_Witness ==
  /\ PatternCall(animCall)
  /\ animCfg.Pattern = PatternRainbow
  /\ animCall.frameNumber = 0
  /\ animCfg.Colors = << "#FF0000", "#FF8000", "#FFFF00" >>
  /\ animCall.frame.Colors =
       << "#FF0000", "#FF8000", "#FFFF00", "#FF0000", "#FF8000", "#FFFF00" >>

\* two consecutive calls of the cycling pattern, both returning a frame
CyclingPair ==
  /\ PatternCall(animPrev)
  /\ PatternCall(animCall)
  /\ animCfg.Pattern = PatternRainbow
  /\ Len(animCfg.Colors) >= 2
  /\ Len(animText) >= 1

Differ(a, b) ==
  \/ Len(a) # Len(b)
  \/ \E i \in 1..Len(a) : a[i] # b[i]

\* C6 as stated: cycling colour lists for any two different frame numbers
\* differ in at least one position.
C6_DifferentFramesDiffer ==
  (CyclingPair /\ animPrev.frameNumber # animCall.frameNumber) =>
     Differ(animPrev.frame.Colors, animCall.frame.Colors)

\* whether the entries of a palette are pairwise different
PairwiseDistinct(colors) ==
  \A i, j \in 1..Len(colors) : i # j => colors[i] # colors[j]

\* C6 amended: cycling colour lists for two frame numbers that are not
\* congruent modulo the palette size differ in at least one position when
\* the entries of the palette are pairwise different; the lists for two
\* frame numbers that are congruent modulo the palette size are equal.
C6_IncongruentFramesDiffer ==
  CyclingPair =>
     LET P == Len(animCfg.Colors)
         congruent == (animPrev.frameNumber % P) = (animCall.frameNumber % P)
     IN /\ (~congruent /\ PairwiseDistinct(animCfg.Colors)) =>
             Differ(animPrev.frame.Colors, animCall.frame.Colors)
        /\ congruent => animPrev.frame.Colors = animCall.frame.Colors

C6_Witness ==
  /\ CyclingPair
  /\ animPrev.frameNumber = 0
  /\ animCall.frameNumber = 1
  /\ Len(animCfg.Colors) = 3
  /\ Len(animText) = 4
  /\ animPrev.frame.Colors[1] = "#FF0000"
  /\ animCall.frame.Colors[1] = "#FF8000"

\* C7: all colours one pulse-pattern call returns are identical.
C7_PulseUniform ==
  (Returned(animCall) /\ animCfg.Enabled /\ animCfg.Pattern = PatternPulse) =>
     \A i, j \in 1..Len(animCall.frame.Colors) :
        animCall.frame.Colors[i] = animCall.frame.Colors[j]

C7_Witness ==
  /\ Returned(animCall)
  /\ animCfg.Enabled
  /\ animCfg.Pattern = PatternPulse
  /\ Len(animCfg.Colors) = 3
  /\ animCall.frameNumber = 0
  /\ animCall.frame.Colors = [j \in 1..4 |-> "#FF8000"]

FourPatterns == {PatternRainbow, PatternGradient, PatternPulse, PatternWave}

\* C8: for each of the four patterns, with a non-empty palette, GenerateFrame
\* returns exactly N colours, each an element of the palette; so an empty
\* text gives no colours and a one-colour palette gives that colour N times.
C8_ColorListShape ==
  (PatternCall(animCall) /\ animCfg.Pattern \in FourPatterns) =>
     /\ Len(animCall.frame.Colors) = Len(animText)
     /\ \A i \in 1..Len(animCall.frame.Colors) :
          \E k \in 1..Len(animCfg.Colors) :
             animCall.frame.Colors[i] = animCfg.Colors[k]
     /\ Len(animText) = 0 => animCall.frame.Colors = << >>
     /\ Len(animCfg.Colors) = 1 =>
          animCall.frame.Colors = [j \in 1..Len(animText) |-> animCfg.Colors[1]]

C8_Witness ==
  /\ PatternCall(animCall)
  /\ animCfg.Pattern = PatternWave
  /\ Len(animCfg.Colors) = 3
  /\ animCall.frameNumber = 4
  /\ Len(animCall.frame.Colors) = 6
  /\ animCall.frame.Colors[1] = "#FFFF00"
  /\ animCall.frame.Colors[6] = "#FF8000"

\* C9: two GenerateFrame calls on an enabled plugin with the same pattern,
\* palette, enabled flag, text and frame number return the same colours,
\* whatever the plugin's frameCount at either call and whatever Shutdown and
\* Initialize calls came between them.
C9_Deterministic ==
  (Returned(animPrev) /\ Returned(animCall)
     /\ animPrev.frameNumber = animCall.frameNumber) =>
     animPrev.frame.Colors = animCall.frame.Colors

\* the same frame asked twice, the second time after a re-initialization
\* (frameCount is back at 0 while the first call saw 1)
C9_Witness ==
  /\ Returned(animPrev)
  /\ Returned(animCall)
  /\ animCfg.Enabled
  /\ animCfg.Pattern = PatternRainbow
  /\ Len(animCfg.Colors) = 3
  /\ Len(animText) = 4
  /\ animPrev.frameNumber = 2
  /\ animCall.frameNumber = 2
  /\ animPrev.frameCount = 1
  /\ animCall.frameCount = 0
  /\ animCall.frame.Colors = animPrev.frame.Colors

(***************************************************************************)
(* Claims about the rasterizer and the compositor.                         *)
(***************************************************************************)
\* the text generateASCIIArt rasterizes for the display data
RenderText == FormatCost(dispData.Cost.TotalCost)

\* the last call rasterized a cost: it returned a canvas and no error
Rendered ==
  /\ dispCall.called
  /\ dispCall.result.err = ""
  /\ ~dispCall.result.panicked
  /\ ~dispData.isNil
  /\ ~dispData.Cost.isNil

SupportedText(text) ==
  \A i \in 1..Len(text) : text[i] \in DOMAIN getSmallLetterPatterns

\* the glyph set a canvas of that many lines was drawn with
PatternsOfHeight(numRows) ==
  IF numRows = 7 THEN getSmallLetterPatterns ELSE getLargeLetterPatterns

\* the 0-based canvas column where the glyph of the k-th character starts
RECURSIVE GlyphStart(_, _, _)
GlyphStart(text, k, patterns) ==
  IF k = 1 THEN 0
  ELSE GlyphStart(text, k - 1, patterns) + Len(patterns[text[k - 1]][1]) + 2

\* the padding centerASCIIArt puts left of and above a canvas
LeftPadding(art, width) ==
  IF width > Len(art[1]) THEN (width - Len(art[1])) \div 2 ELSE 0
TopPadding(art, height) ==
  IF height > Len(art) THEN (height - Len(art)) \div 2 ELSE 0

\* C3: with a frame of one colour per character, every cell of the k-th
\* character's glyph is styled with frame.Colors[k] on every canvas row, and
\* the two gap cells after it carry no colour.
C3_GlyphCellsTakeCharColor ==
  (/\ Rendered
   /\ dispCall.version = "Render"
   /\ SupportedText(RenderText)
   /\ ~dispData.Animation.isNil
   /\ Len(dispData.Animation.Colors) = Len(RenderText)) =>
     LET art == dispCall.result.art
         out == dispCall.result.output
         pats == PatternsOfHeight(Len(art))
         hp == LeftPadding(art, dispData.Config.Width)
         vp == TopPadding(art, dispData.Config.Height)
     IN \A r \in 1..Len(art) : \A k \in 1..Len(RenderText) :
          LET start == hp + GlyphStart(RenderText, k, pats)
              w == Len(pats[RenderText[k]][1])
          IN /\ \A c \in 1..w :
                  out[vp + r][start + c].fg = dispData.Animation.Colors[k]
             /\ k < Len(RenderText) =>
                  \A g \in 1..2 : out[vp + r][start + w + g].fg = ""

\* C4: Render uses the 7-row set exactly when width < 100 or height < 25,
\* and the 10-row set otherwise.
C4_CompactBelow100x25 ==
  (Rendered /\ dispCall.version = "Render") =>
     Len(dispCall.result.art) =
       (IF dispData.Config.Width < 100 \/ dispData.Config.Height < 25
        THEN 7 ELSE 10)

\* row r of the canvas of a text, from its k-th character on: the glyph rows
\* joined by two spaces
RECURSIVE RowFrom(_, _, _, _)
RowFrom(text, k, patterns, r) ==
  IF k > Len(text) THEN << >>
  ELSE IF k = Len(text) THEN patterns[text[k]][r]
  ELSE patterns[text[k]][r] \o << S, S >> \o RowFrom(text, k + 1, patterns, r)

\* C10: canvas row r is glyph(c0)[r], two spaces, glyph(c1)[r], ..., with
\* nothing before the first or after the last glyph; a single character is
\* its glyph alone.
C10_RowComposition ==
  (Rendered /\ SupportedText(RenderText)) =>
     LET art == dispCall.result.art
         pats == PatternsOfHeight(Len(art))
     IN /\ \A r \in 1..Len(art) : art[r] = RowFrom(RenderText, 1, pats, r)
        /\ \A c \in DOMAIN pats : rasterize(<< c >>, pats, Len(art)) = pats[c]

C10_Witness ==
  /\ Rendered
  /\ dispCall.version = "Render"
  /\ RenderText = << "$", "4", "2", ".", "5", "0" >>
  /\ dispData.Config.Width = 30
  /\ dispData.Config.Height = 8
  /\ Len(dispCall.result.art) = 7
  /\ Len(dispCall.result.art[1]) = 5 * 9 + 6 + 5 * 2
  /\ SubSeq(dispCall.result.art[1], 1, 20) =
       getSmallLetterPatterns["$"][1] \o << S, S >> \o getSmallLetterPatterns["4"][1]

\* the call was made on an initialized display plugin, with display data
\* that holds a viewport
RenderCalled ==
  /\ dispCall.called
  /\ dispCall.life = "Initialize"
  /\ ~dispData.isNil
  /\ ~dispData.Config.isNil

\* every glyph of the set has numRows rows, all of one width
GlyphSetRectangular(patterns, numRows) ==
  \A c \in DOMAIN patterns :
    /\ Len(patterns[c]) = numRows
    /\ \A r \in 1..numRows : Len(patterns[c][r]) = Len(patterns[c][1])

\* C11: every glyph of the compact set has 7 rows and every glyph of the
\* full set 10, the rows of one glyph have one width, and the canvas of a
\* text of supported characters has as many lines as each of its glyphs has
\* rows (7 or 10, whatever the number of characters), all of one width.
C11_CanvasRectangle ==
  /\ GlyphSetRectangular(getSmallLetterPatterns, 7)
  /\ GlyphSetRectangular(getLargeLetterPatterns, 10)
  /\ (Rendered /\ SupportedText(RenderText)) =>
       LET art == dispCall.result.art
           pats == PatternsOfHeight(Len(art))
       IN /\ Len(art) \in {7, 10}
          /\ \A k \in 1..Len(RenderText) : Len(pats[RenderText[k]]) = Len(art)
          /\ \A r \in 1..Len(art) : Len(art[r]) = Len(art[1])

C11_Witness ==
  /\ Rendered
  /\ dispCall.version = "Render"
  /\ RenderText = << "$", "9", "9", "9", "9", ".", "9", "9" >>
  /\ dispData.Config.Width = 120
  /\ dispData.Config.Height = 30
  /\ Len(dispCall.result.art) = 10
  /\ Len(dispCall.result.art[10]) = 7 * 14 + 9 + 7 * 2

\* C12: a render of a present cost either reports an error and gives no
\* output, or draws every character of "$" + the amount with two decimals as
\* its glyph: no character is left out of the canvas without an error.
C12_NoSilentCharacterLoss ==
  (RenderCalled /\ ~dispData.Cost.isNil) =>
     \/ dispCall.result.err # "" /\ dispCall.result.output = << >>
     \/ /\ SupportedText(RenderText)
        /\ LET art == dispCall.result.art
               pats == PatternsOfHeight(Len(art))
           IN \A r \in 1..Len(art) : art[r] = RowFrom(RenderText, 1, pats, r)

(***************************************************************************)
(* Claims about centering.                                                 *)
(***************************************************************************)
\* the width in cells of the widest line of a canvas
CanvasWidth(canvas) ==
  CHOOSE w \in {Len(canvas[i]) : i \in 1..Len(canvas)} :
    \A i \in 1..Len(canvas) : Len(canvas[i]) <= w

\* the padding the claims name for a canvas of w columns (h lines) in a
\* viewport of W columns (H lines)
PaddingOf(W, w) == IF W > w THEN (W - w) \div 2 ELSE 0

\* C13: centering a canvas of width w and h lines in a viewport W x H puts
\* floor((W - w) / 2) spaces before every content line when W > w and none
\* otherwise, and floor((H - h) / 2) blank lines above and as many below when
\* H > h and none otherwise; the content lines follow in their order, whole.
C13_CenteringArithmetic ==
  ctr.n >= 1 =>
     LET canvas == ctr.input
         h == Len(canvas)
         hp == PaddingOf(ctr.W, CanvasWidth(canvas))
         vp == PaddingOf(ctr.H, h)
     IN /\ Len(ctr.out) = h + 2 * vp
        /\ \A i \in 1..vp : ctr.out[i] = << >> /\ ctr.out[vp + h + i] = << >>
        /\ \A i \in 1..h :
             /\ Len(ctr.out[vp + i]) = hp + Len(canvas[i])
             /\ \A j \in 1..hp : ctr.out[vp + i][j] = S
             /\ \A j \in 1..Len(canvas[i]) : ctr.out[vp + i][hp + j] = canvas[i][j]

C13_Witness ==
  /\ ctr.n = 1
  /\ ctr.canvas = << << B, S >>, << B >> >>
  /\ ctr.W = 5
  /\ ctr.H = 4
  /\ ctr.out = << << >>, << S, B, S >>, << S, B >>, << >> >>

\* C14 as stated: centering the centered canvas again at the same viewport
\* returns the centered canvas.
C14_CenteringIdempotent ==
  ctr.n = 2 => ctr.out = ctr.first

\* C14 amended: for a canvas of width w, centering the centered canvas again
\* at the same viewport returns it unchanged exactly when W <= w + 2; for a
\* wider viewport every line, the blank padding lines included, gets
\* floor((W - w - floor((W - w) / 2)) / 2) more spaces on its left.  The
\* number of lines is the same either way.
C14_IdempotentUpToTwoColumns ==
  ctr.n = 2 =>
     LET w == CanvasWidth(ctr.canvas)
         hp == PaddingOf(ctr.W, w)
         more == PaddingOf(ctr.W, w + hp)
     IN /\ (ctr.out = ctr.first) <=> (ctr.W <= w + 2)
        /\ Len(ctr.out) = Len(ctr.first)
        /\ \A i \in 1..Len(ctr.first) : ctr.out[i] = Spaces(more) \o ctr.first[i]

C14_Witness ==
  /\ ctr.n = 2
  /\ ctr.canvas = << << B, S >> >>
  /\ ctr.W = 5
  /\ ctr.H = 4
  /\ ctr.first = << << >>, << S, B, S >>, << >> >>
  /\ ctr.out = << << S >>, << S, S, B, S >>, << S >> >>

(***************************************************************************)
(* Claims about Render's degenerate inputs.                                *)
(***************************************************************************)
\* C15: Render on an initialized display plugin, with display data that has
\* a viewport and no cost, returns the empty string and no error, with and
\* without an animation frame.
C15_AbsentCostEmptyString ==
  (RenderCalled /\ dispData.Cost.isNil) =>
     /\ dispCall.result.output = << >>
     /\ dispCall.result.err = ""
     /\ ~dispCall.result.panicked

C15_Witness ==
  /\ RenderCalled
  /\ dispCall.version = "Render"
  /\ dispData.Cost.isNil
  /\ ~dispData.Animation.isNil
  /\ dispData.Config.Width = 120
  /\ dispData.Config.Height = 30
  /\ dispCall.result.output = << >>
  /\ dispCall.result.err = ""

\* C16: Render on an initialized display plugin with a cost, a viewport and
\* no animation frame returns the centered canvas of the cost, no cell of it
\* styled, and no error.
C16_AbsentFramePlainCanvas ==
  (RenderCalled /\ ~dispData.Cost.isNil /\ dispData.Animation.isNil) =>
     LET centered == centerASCIIArt(dispCall.result.art,
                                    dispData.Config.Width, dispData.Config.Height)
         out == dispCall.result.output
     IN /\ dispCall.result.err = ""
        /\ ~dispCall.result.panicked
        /\ Len(dispCall.result.art) \in {7, 10}
        /\ Len(out) = Len(centered)
        /\ \A i \in 1..Len(out) :
             /\ Len(out[i]) = Len(centered[i])
             /\ \A j \in 1..Len(out[i]) :
                  out[i][j].ch = centered[i][j] /\ out[i][j].fg = ""

C16_Witness ==
  /\ RenderCalled
  /\ dispCall.version = "Render"
  /\ dispData.Cost.TotalCost = 4250
  /\ ~dispData.Cost.isNil
  /\ dispData.Animation.isNil
  /\ dispData.Config.Width = 120
  /\ dispData.Config.Height = 30
  /\ Len(dispCall.result.output) = 30
  /\ Len(dispCall.result.output[11]) = 15 + 89
  /\ \E j \in 16..29 : dispCall.result.output[11][j] = [ch |-> B, fg |-> ""]

(***************************************************************************)
(* Claims about the plugin lifecycle and about validation.                 *)
(***************************************************************************)
NotEnabled == "plugin is not enabled"

\* C17: a plugin is enabled exactly when the most recent lifecycle call on
\* it was Initialize; GenerateFrame, Render and FetchCostData return the
\* "not enabled" error and nothing else exactly when they are called on a
\* plugin never initialized or shut down since, whatever their arguments
\* (a nil config or nil display data included), and never on an initialized
\* one.
C17_LifecycleGuard ==
  /\ anim.enabled <=> life.anim = "Initialize"
  /\ disp.enabled <=> life.disp = "Initialize"
  /\ ds.enabled <=> life.ds = "Initialize"
  /\ animCall.called =>
       IF animCall.life = "Initialize" THEN animCall.err # NotEnabled
       ELSE animCall.err = NotEnabled /\ animCall.frame.isNil
  /\ animPrev.called =>
       IF animPrev.life = "Initialize" THEN animPrev.err # NotEnabled
       ELSE animPrev.err = NotEnabled /\ animPrev.frame.isNil
  /\ dispCall.called =>
       IF dispCall.life = "Initialize" THEN dispCall.result.err # NotEnabled
       ELSE /\ dispCall.result.err = NotEnabled
            /\ dispCall.result.output = << >>
            /\ ~dispCall.result.panicked
  /\ dsCall.called =>
       IF dsCall.life = "Initialize" THEN dsCall.err # NotEnabled
       ELSE dsCall.err = NotEnabled /\ dsCall.data.isNil /\ ~dsCall.ran

\* each operation refused after Shutdown (GenerateFrame with a nil config,
\* Render with nil display data) and available again after Initialize
C17_Witness ==
  /\ animPrev.called /\ animPrev.life = "Shutdown" /\ animPrev.err = NotEnabled
  /\ animCall.called /\ animCall.life = "Initialize" /\ animCall.err = ""
  /\ ~animCall.frame.isNil
  /\ dispCall.called /\ dispCall.life = "Shutdown" /\ dispData.isNil
  /\ dispCall.result.err = NotEnabled
  /\ life.disp = "Initialize"
  /\ dsCall.called /\ dsCall.life = "Initialize" /\ dsCall.err = ""
  /\ ~dsCall.data.isNil
  /\ life.ds = "Shutdown"

\* ValidateAnimationConfig rejects the config for its palette: it is empty
\* or has an entry that is not 7 characters with a leading "#"
PaletteRejected(config) ==
  \/ Len(config.Colors) = 0
  \/ \E i \in 1..Len(config.Colors) :
       \/ Len(ColorChars[config.Colors[i]]) # 7
       \/ ColorChars[config.Colors[i]][1] # "#"

\* a GenerateFrame call on an initialized plugin with animation enabled
GenerationCall(c) ==
  /\ c.called
  /\ c.life = "Initialize"
  /\ ~animCfg.isNil
  /\ animCfg.Enabled

\* C18: GenerateFrame on an initialized plugin with animation enabled
\* returns an error and no frame when the palette is empty or has a
\* malformed entry.
C18_ValidationPrecedesGeneration ==
  (GenerationCall(animCall) /\ PaletteRejected(animCfg)) =>
     animCall.err # "" /\ animCall.frame.isNil

\* C19: ValidateAnimationConfig returns no error exactly when the config is
\* not nil, its speed is positive, its palette is not empty, every entry of
\* the palette is 7 characters with a leading "#", and its pattern is
\* rainbow, gradient, pulse or wave.
C19_ValidateIff ==
  val.called =>
     ((val.err = NoError) <=>
        /\ ~val.config.isNil
        /\ val.config.Speed > 0
        /\ ~PaletteRejected(val.config)
        /\ val.config.Pattern \in {"rainbow", "gradient", "pulse", "wave"})

C19_Witness ==
  /\ val.called
  /\ val.err = NoError
  /\ val.config.Speed = 1
  /\ val.config.Colors = << "#FF0000", "#GGGGGG" >>
  /\ val.config.Pattern = "wave"

(***************************************************************************)
(* Claims about the TUI model.                                             *)
(***************************************************************************)
\* C20: the model's frame counter is 0 until Init has run and always equals
\* the number of tick messages handled, whatever other messages were handled
\* in between; a View that calls GenerateFrame passes it the counter.
C20_FrameCounter ==
  /\ ~cmds.started => tui.frameCount = 0
  /\ tui.frameCount = cmds.ticks
  /\ (view.called /\ view.result.generated) =>
        view.result.frameNumber = view.frameCount

\* after two ticks, with a window size and a fetched cost handled in
\* between, View generated frame 2
C20_Witness ==
  /\ cmds.ticks = 2
  /\ tui.frameCount = 2
  /\ tui.width = 30
  /\ ~tui.currentCost.isNil
  /\ ~tui.isQuitting
  /\ view.called
  /\ view.result.kind = "Controls"
  /\ view.result.generated
  /\ view.result.frameNumber = 2

(***************************************************************************)
(* Claims about the compositor's colour index.                             *)
(***************************************************************************)
\* the last call composited a frame holding at least one colour over the
\* centered canvas of a cost
Composited ==
  /\ dispCall.called
  /\ disp.enabled
  /\ dispCall.life = "Initialize"
  /\ ~dispData.isNil
  /\ ~dispData.Cost.isNil
  /\ ~dispData.Config.isNil
  /\ ~dispData.Animation.isNil
  /\ Len(dispData.Animation.Colors) >= 1

\* C21: for every centered canvas and every frame holding at least one
\* colour, compositing completes without an index error, and the colour
\* index computed for every character of every line lies in
\* 0..len(Colors)-1 and selects the colour the character is styled with.
C21_ColorIndexInRange ==
  Composited =>
     LET out == dispCall.result.output
         colors == dispData.Animation.Colors
         centered == centerASCIIArt(dispCall.result.art,
                                    dispData.Config.Width, dispData.Config.Height)
     IN /\ dispCall.result.err = ""
        /\ ~dispCall.result.panicked
        /\ Len(out) = Len(centered)
        /\ \A l \in 1..Len(out) :
             /\ Len(out[l]) = Len(centered[l])
             /\ \A j \in 1..Len(out[l]) :
                  LET index == colorIndex(l - 1,
                                          ByteLenOf(centered[l], Len(centered[l])),
                                          ByteLenOf(centered[l], j - 1),
                                          Len(colors))
                  IN /\ index \in 0..(Len(colors) - 1)
                     /\ out[l][j].fg # IndexOutOfRange
                     /\ out[l][j].fg = colors[index + 1]

\* "$9999.99" composited with a frame of eight colours, one per character
\* of the text: the last colour of the frame is selected on a line below
\* the first one
C21_Witness ==
  /\ Composited
  /\ dispCall.version = "Render"
  /\ dispData.Cost.TotalCost = 999999
  /\ Len(FormatCost(999999)) = 8
  /\ Len(dispData.Animation.Colors) = 8
  /\ dispData.Config.Width = 120
  /\ dispData.Config.Height = 30
  /\ \E l \in 2..Len(dispCall.result.output) :
       \E j \in 1..Len(dispCall.result.output[l]) :
         /\ colorIndex(l - 1,
                       ByteLenOf(LET c == centerASCIIArt(dispCall.result.art, 120, 30) IN c[l],
                                 Len(dispCall.result.output[l])),
                       ByteLenOf(LET c == centerASCIIArt(dispCall.result.art, 120, 30) IN c[l],
                                 j - 1), 8) = 7
         /\ dispCall.result.output[l][j].fg = dispData.Animation.Colors[8]
         /\ dispCall.result.output[l][j].ch = B

(***************************************************************************)
(* Claims about absent arguments of Render.                                *)
(***************************************************************************)
\* C27: Render on an enabled display plugin returns an error and no output
\* when the display data is nil and also when the data carries a cost but
\* its Config is nil; it never dereferences an absent Config.
C27_AbsentConfigIsError ==
  (/\ dispCall.called
   /\ dispCall.life = "Initialize"
   /\ dispCall.version = "Render"
   /\ (dispData.isNil \/ (~dispData.Cost.isNil /\ dispData.Config.isNil))) =>
     /\ ~dispCall.result.panicked
     /\ dispCall.result.err # ""
     /\ dispCall.result.output = << >>

(***************************************************************************)
(* Claims about the update loop's tick chain and refresh results.          *)
(***************************************************************************)
\* the ticks scheduled so far: those pending and those already handled
TicksScheduled(c) == c.tick + c.ticks

\* C28: Init schedules exactly one tick; handling a tick message schedules
\* exactly one further tick unless the model is quitting, in which case none
\* is scheduled; no other message schedules a tick.  So at most one tick is
\* pending at any time, and once the model is quitting no tick is scheduled.
C28_SingleTickChain ==
  [][/\ (~cmds.started /\ cmds'.started) => TicksScheduled(cmds') = 1
     /\ (cmds.started /\ cmds'.ticks = cmds.ticks + 1) =>
          TicksScheduled(cmds') - TicksScheduled(cmds) =
            (IF tui.isQuitting THEN 0 ELSE 1)
     /\ (cmds.started /\ cmds'.ticks = cmds.ticks) =>
          TicksScheduled(cmds') = TicksScheduled(cmds)
     /\ tui.isQuitting => TicksScheduled(cmds') = TicksScheduled(cmds)
     /\ cmds.tick <= 1
     /\ cmds'.tick <= 1]_vars

\* two ticks were handled, the second one after a quit key: the chain has
\* ended with no tick pending
C28_Witness ==
  /\ cmds.started
  /\ tui.isQuitting
  /\ cmds.quit
  /\ cmds.ticks = 2
  /\ tui.frameCount = 2
  /\ cmds.tick = 0
  /\ TicksScheduled(cmds) = 2

\* C29: handling a cost-data result that carries an error leaves the model
\* with no cost and with that error, so View (while the model is not
\* quitting) shows the error text and not the cost fetched before; handling
\* a successful result stores its cost and clears the error; no other
\* message changes the cost held or clears an error.
C29_FailedRefreshReplacesCost ==
  [][IF BagCardinality(cmds'.msgs) = BagCardinality(cmds.msgs) - 1
       THEN \E msg \in BagToSet(cmds.msgs) :
                 /\ cmds'.msgs = cmds.msgs (-) SetToBag({msg})
                 /\ tui'.error = msg.err
                 /\ tui'.currentCost = msg.costData
                 /\ ~tui'.isLoading
                 /\ msg.err # "" =>
                      /\ tui'.currentCost.isNil
                      /\ ~tui'.isQuitting =>
                           /\ View(tui', anim', disp').kind = "Error"
                           /\ View(tui', anim', disp').detail = msg.err
                           /\ View(tui', anim', disp').output = << >>
                 /\ msg.err = "" => ~tui'.currentCost.isNil
       ELSE /\ tui'.currentCost = tui.currentCost
            /\ tui.error # "" => tui'.error # ""]_vars

\* a refresh failed after a fetch had succeeded: the plugin still holds the
\* value fetched before, the model holds no cost, and View showed the error
C29_Witness ==
  /\ cmds.started
  /\ ~ds.cachedData.isNil
  /\ ds.cachedData.TotalCost = 425
  /\ tui.currentCost.isNil
  /\ tui.error # ""
  /\ tui.error # "terminal error"
  /\ ~tui.isLoading
  /\ ~tui.isQuitting
  /\ view.called
  /\ view.result.kind = "Error"
  /\ view.result.detail = tui.error

(***************************************************************************)
(* The data source plugin on its own: Initialize, FetchCostData and        *)
(* Shutdown in any order, while time passes.                               *)
(***************************************************************************)
\* the maps Initialize is given: empty (the cache time is kept), with the
\* cache_time "0s" or "2s", with one that is not a duration, and with one
\* that is not a string
DsConfigs ==
  {NoUpdates,
   Updates("cache_time", StringValue(ZeroSeconds)),
   Updates("cache_time", StringValue(TwoSeconds)),
   Updates("cache_time", StringValue(<< "s", "o", "o", "n" >>)),
   Updates("cache_time", NotAString)}

\* how the command ends when FetchCostData runs it
DsOutcomes == {ExecFails, ParseFails, Reports(425), Reports(1000)}

InitDataSource ==
  /\ InitAnimIdle
  /\ InitDisplayIdle
  /\ life = NoLife
  /\ InitCenterIdle
  /\ InitValidateIdle
  /\ InitDataSourceIdle
  /\ InitTUIIdle
  /\ InitCoreIdle
  /\ InitBuildIdle

\* a second passes
AdvanceClock ==
  /\ UNCHANGED <<coreVars, buildVars>>
  /\ now < MaxNow
  /\ now' = now + 1
  /\ UNCHANGED <<animVars, dispVars, life, ctrVars, valVars, ds, dsCall, fetches, tuiVars>>

NextDataSource ==
  \/ \E config \in DsConfigs : DsInitialize(config)
  \/ DsShutdown
  \/ \E watched \in BOOLEAN : CallFetchCostData(watched)
  \/ \E k \in 1..MaxInFlight : FetchReadsCache(k)
  \/ \E k \in 1..MaxInFlight : FetchReadsLastUpdate(k)
  \/ \E k \in 1..MaxInFlight : FetchTestsFresh(k)
  \/ \E k \in 1..MaxInFlight, reread \in BOOLEAN : FetchReturnsCached(k, reread)
  \/ \E k \in 1..MaxInFlight, o \in DsOutcomes : FetchCommandEnds(k, o)
  \/ \E k \in 1..MaxInFlight : FetchStores(k)
  \/ \E k \in 1..MaxInFlight : FetchStamps(k)
  \/ AdvanceClock

SpecDataSource == InitDataSource /\ [][NextDataSource]_vars

(***************************************************************************)
(* Claims about the data source's cache.                                   *)
(***************************************************************************)
\* the recorded call returned the cached cost without running the command
CacheHit ==
  /\ ~dsCall.ran
  /\ dsCall.err = ""
  /\ ~dsCall.data.isNil
  /\ dsCall.data = dsCall.cached

\* C30: over any sequence of Initialize, FetchCostData and Shutdown calls,
\* each made after the one before it has returned, a FetchCostData call on
\* the enabled plugin returns the cached cost without running the command
\* if and only if a fetch since the last Shutdown stored a value less than
\* cacheTime before the call, and runs the command otherwise; a call that
\* fails returns no cost and leaves the cached value and the last-update
\* time as they were; after Shutdown the plugin holds no cached value.  The
\* calls of a sequence are those during which no other call is made on the
\* plugin; a call that overlaps another one is held to returning no cost
\* with an error, and a value that a call still running at Shutdown stores
\* afterwards is not counted as kept by Shutdown.
C30_CacheHitIff ==
  /\ (dsCall.called /\ dsCall.life = "Initialize" /\ ~dsCall.overlapped) =>
       /\ CacheHit <=> dsCall.inTime
       /\ ~CacheHit => dsCall.ran
  /\ (dsCall.called /\ dsCall.err # "") => dsCall.data.isNil
  /\ (dsCall.called /\ dsCall.err # "" /\ ~dsCall.overlapped) => dsCall.kept
  /\ (life.ds = "Shutdown" /\ ~dsCall.stored.ok) => ds.cachedData.isNil

\* a call that no other call overlapped returned the value stored one second
\* earlier, under a cache time of two seconds
C30_Witness ==
  /\ dsCall.called
  /\ dsCall.life = "Initialize"
  /\ ~dsCall.overlapped
  /\ fetches = << >>
  /\ CacheHit
  /\ dsCall.inTime
  /\ dsCall.data.TotalCost = 1000
  /\ ds.cacheTime = Seconds(2)
  /\ dsCall.stored.at = TimeAt(2)
  /\ ds.lastUpdate = TimeAt(2)
  /\ now = 3

(***************************************************************************)
(* The registry and the ConfigManager it reads: registrations, lookups,    *)
(* InitializePlugin, ShutdownAll and UpdateConfig in any order.            *)
(***************************************************************************)
\* the names looked up, the plugins initialized and the updates made
LookupNames == {"ccusage-cli", "bankruptcy-datasource", "rainbow-display",
                "rainbow-animation", "missing"}
InitializedPlugins ==
  {"ccusage#1", "mock#1", "test#1", "display#1", "animation#1"}
ConfigUpdates ==
  {Updates("plugins.datasource", StringValue("bankruptcy-datasource")),
   Updates("plugins.datasource", StringValue("ccusage-cli")),
   Updates("plugins.datasource", OtherValue),
   Updates("plugins.display", StringValue("plain-display"))}

InitRegistry ==
  /\ InitAnimIdle
  /\ InitDisplayIdle
  /\ life = NoLife
  /\ InitCenterIdle
  /\ InitValidateIdle
  /\ InitDataSourceIdle
  /\ InitTUIIdle
  /\ reg = NewPluginRegistry
  /\ plugins = NewPlugins
  /\ cfg \in {getDefaultConfig, NilCoreConfig}
  /\ coreCall = NoCoreCall
  /\ InitBuildIdle

\* the record of a registry call made in the current state
RegistryCall(op, arg, res) ==
  [NoCoreCall EXCEPT !.op = op, !.arg = arg, !.registry = reg, !.config = cfg,
                     !.plugin = res.plugin, !.err = res.err]

CallRegisterDataSource(plugin) ==
  /\ LET res == RegisterDataSource(reg, plugin)
     IN /\ reg' = res.pr
        /\ coreCall' = RegistryCall("RegisterDataSource", plugin, res)
  /\ UNCHANGED <<plugins, cfg>>
  /\ UNCHANGED <<animVars, dispVars, life, ctrVars, valVars, dsVars, tuiVars, buildVars>>

CallRegisterDisplay(plugin) ==
  /\ LET res == RegisterDisplay(reg, plugin)
     IN /\ reg' = res.pr
        /\ coreCall' = RegistryCall("RegisterDisplay", plugin, res)
  /\ UNCHANGED <<plugins, cfg>>
  /\ UNCHANGED <<animVars, dispVars, life, ctrVars, valVars, dsVars, tuiVars, buildVars>>

CallRegisterAnimation(plugin) ==
  /\ LET res == RegisterAnimation(reg, plugin)
     IN /\ reg' = res.pr
        /\ coreCall' = RegistryCall("RegisterAnimation", plugin, res)
  /\ UNCHANGED <<plugins, cfg>>
  /\ UNCHANGED <<animVars, dispVars, life, ctrVars, valVars, dsVars, tuiVars, buildVars>>

CallGetDataSource(name) ==
  /\ coreCall' = RegistryCall("GetDataSource", name, GetDataSource(reg, name))
  /\ UNCHANGED <<reg, plugins, cfg>>
  /\ UNCHANGED <<animVars, dispVars, life, ctrVars, valVars, dsVars, tuiVars, buildVars>>

CallGetDisplay(name) ==
  /\ coreCall' = RegistryCall("GetDisplay", name, GetDisplay(reg, name))
  /\ UNCHANGED <<reg, plugins, cfg>>
  /\ UNCHANGED <<animVars, dispVars, life, ctrVars, valVars, dsVars, tuiVars, buildVars>>

CallGetAnimation(name) ==
  /\ coreCall' = RegistryCall("GetAnimation", name, GetAnimation(reg, name))
  /\ UNCHANGED <<reg, plugins, cfg>>
  /\ UNCHANGED <<animVars, dispVars, life, ctrVars, valVars, dsVars, tuiVars, buildVars>>

CallGetActiveDataSource ==
  /\ coreCall' = RegistryCall("GetActiveDataSource", "", GetActiveDataSource(reg, cfg))
  /\ UNCHANGED <<reg, plugins, cfg>>
  /\ UNCHANGED <<animVars, dispVars, life, ctrVars, valVars, dsVars, tuiVars, buildVars>>

CallGetActiveDisplay ==
  /\ coreCall' = RegistryCall("GetActiveDisplay", "", GetActiveDisplay(reg, cfg))
  /\ UNCHANGED <<reg, plugins, cfg>>
  /\ UNCHANGED <<animVars, dispVars, life, ctrVars, valVars, dsVars, tuiVars, buildVars>>

CallGetActiveAnimation ==
  /\ coreCall' = RegistryCall("GetActiveAnimation", "", GetActiveAnimation(reg, cfg))
  /\ UNCHANGED <<reg, plugins, cfg>>
  /\ UNCHANGED <<animVars, dispVars, life, ctrVars, valVars, dsVars, tuiVars, buildVars>>

CallInitializePlugin(plugin) ==
  /\ LET Initialized(res) ==
           /\ plugins' = [plugins EXCEPT ![plugin] = res.p]
           /\ coreCall' = [NoCoreCall EXCEPT !.op = "InitializePlugin", !.arg = plugin,
                                             !.registry = reg, !.config = cfg,
                                             !.pluginErr = res.err]
     IN Initialized(InitializePlugin(cfg, plugin, plugins[plugin]))
  /\ UNCHANGED <<reg, cfg>>
  /\ UNCHANGED <<animVars, dispVars, life, ctrVars, valVars, dsVars, tuiVars, buildVars>>

CallShutdownAll ==
  /\ LET res == ShutdownAll(reg, plugins)
     IN /\ plugins' = res.plugins
        /\ coreCall' = [NoCoreCall EXCEPT !.op = "ShutdownAll", !.registry = reg,
                                          !.objects = plugins,
                                          !.config = cfg, !.err = res.err,
                                          !.called = res.called,
                                          !.failed = res.failed]
  /\ UNCHANGED <<reg, cfg>>
  /\ UNCHANGED <<animVars, dispVars, life, ctrVars, valVars, dsVars, tuiVars, buildVars>>

\* the record of a ConfigManager call made in the current state
ConfigCall(op, res) ==
  [NoCoreCall EXCEPT !.op = op, !.registry = reg, !.config = cfg,
                     !.configErr = res.err, !.panicked = res.panicked]

\* a panic leaves cm.config as it was
CallUpdateConfig(updates) ==
  /\ LET res == UpdateConfig(cfg, updates)
     IN /\ cfg' = res.config
        /\ coreCall' = [ConfigCall("UpdateConfig", res) EXCEPT !.updates = updates]
  /\ UNCHANGED <<reg, plugins>>
  /\ UNCHANGED <<animVars, dispVars, life, ctrVars, valVars, dsVars, tuiVars, buildVars>>

NextRegistry ==
  \/ \E plugin \in DataSourcePlugins : CallRegisterDataSource(plugin)
  \/ \E plugin \in DisplayPlugins : CallRegisterDisplay(plugin)
  \/ \E plugin \in AnimationPlugins : CallRegisterAnimation(plugin)
  \/ \E name \in LookupNames : CallGetDataSource(name)
  \/ \E name \in LookupNames : CallGetDisplay(name)
  \/ \E name \in LookupNames : CallGetAnimation(name)
  \/ CallGetActiveDataSource
  \/ CallGetActiveDisplay
  \/ CallGetActiveAnimation
  \/ \E plugin \in InitializedPlugins : CallInitializePlugin(plugin)
  \/ CallShutdownAll
  \/ \E updates \in ConfigUpdates : CallUpdateConfig(updates)

SpecRegistry == InitRegistry /\ [][NextRegistry]_vars

(***************************************************************************)
(* The start of the program (flags parsed, applied to the default          *)
(* configuration, the result validated) and ApplyFlagsToConfig on its own. *)
(***************************************************************************)
\* the argument lists: those of the tests and of the README, and lists
\* with each way an argument can be read differently by the two parsers or
\* refused by one
ArgLists ==
  {<< >>,
   << << "-", "-", "a", "n", "i", "m", "a", "t", "i", "o", "n", "-", "s",
      "p", "e", "e", "d" >>, << "1", "0", "0", "m", "s" >> >>,
   << << "-", "-", "a", "n", "i", "m", "a", "t", "i", "o", "n", "-", "p",
      "a", "t", "t", "e", "r", "n" >>, << "r", "a", "i", "n", "b", "o",
      "w" >> >>,
   << << "-", "-", "n", "o", "-", "a", "n", "i", "m", "a", "t", "i", "o",
      "n" >> >>,
   << << "-", "-", "b", "a", "n", "k", "r", "u", "p", "t", "c", "y" >> >>,
   << << "-", "-", "a", "n", "i", "m", "a", "t", "i", "o", "n", "-", "s",
      "p", "e", "e", "d" >>, << "2", "0", "0", "m", "s" >>, << "-", "-", "a",
      "n", "i", "m", "a", "t", "i", "o", "n", "-", "p", "a", "t", "t", "e",
      "r", "n" >>, << "w", "a", "v", "e" >> >>,
   << << "-", "-", "a", "n", "i", "m", "a", "t", "i", "o", "n", "-", "s",
      "p", "e", "e", "d" >>, << "7", "5", "m", "s" >>, << "-", "-", "a", "n",
      "i", "m", "a", "t", "i", "o", "n", "-", "p", "a", "t", "t", "e", "r",
      "n" >>, << "p", "u", "l", "s", "e" >>, << "-", "-", "b", "a", "n", "k",
      "r", "u", "p", "t", "c", "y" >> >>,
   << << "-", "-", "a", "n", "i", "m", "a", "t", "i", "o", "n", "-", "s",
      "p", "e", "e", "d" >>, << "5", "0", "m", "s" >>, << "-", "-", "a", "n",
      "i", "m", "a", "t", "i", "o", "n", "-", "p", "a", "t", "t", "e", "r",
      "n" >>, << "g", "r", "a", "d", "i", "e", "n", "t" >> >>,
   << << "-", "b", "a", "n", "k", "r", "u", "p", "t", "c", "y" >> >>,
   << << "-", "-", "b", "a", "n", "k", "r", "u", "p", "t", "c", "y", "=",
      "t", "r", "u", "e" >> >>,
   << << "-", "-" >>, << "-", "-", "b", "a", "n", "k", "r", "u", "p", "t",
      "c", "y" >> >>,
   << << "x" >>, << "-", "-", "b", "a", "n", "k", "r", "u", "p", "t", "c",
      "y" >> >>,
   << << "-", "-", "b", "a", "n", "k", "r", "u", "p", "t", "c", "y" >>,
      << "-", "-", "b", "a", "n", "k", "r", "u", "p", "t", "c", "y", "=", "f",
      "a", "l", "s", "e" >> >>,
   << << "-", "t", "e", "s", "t", ".", "v" >>, << "-", "-", "b", "a", "n",
      "k", "r", "u", "p", "t", "c", "y" >> >>,
   << << "-", "-", "a", "n", "i", "m", "a", "t", "i", "o", "n", "-", "s",
      "p", "e", "e", "d" >>, << "1", "h" >> >>,
   << << "-", "-", "a", "n", "i", "m", "a", "t", "i", "o", "n", "-", "s",
      "p", "e", "e", "d" >>, << "1", ".", "5", "s" >> >>,
   << << "-", "-", "a", "n", "i", "m", "a", "t", "i", "o", "n", "-", "s",
      "p", "e", "e", "d" >>, << "5", "0", "0", "u", "s" >> >>,
   << << "-", "-", "a", "n", "i", "m", "a", "t", "i", "o", "n", "-", "s",
      "p", "e", "e", "d" >>, << ".", "5", "n", "s" >> >>,
   << << "-", "-", "a", "n", "i", "m", "a", "t", "i", "o", "n", "-", "s",
      "p", "e", "e", "d" >>, << "1", "m", "3", "0", "s" >> >>,
   << << "-", "-", "a", "n", "i", "m", "a", "t", "i", "o", "n", "-", "s",
      "p", "e", "e", "d" >>, << "-", "5", "m", "s" >>, << "-", "-", "a", "n",
      "i", "m", "a", "t", "i", "o", "n", "-", "p", "a", "t", "t", "e", "r",
      "n" >>, << "w", "a", "v", "e" >> >>,
   << << "-", "-", "a", "n", "i", "m", "a", "t", "i", "o", "n", "-", "s",
      "p", "e", "e", "d" >>, << "0", "s" >> >>,
   << << "-", "-", "a", "n", "i", "m", "a", "t", "i", "o", "n", "-", "s",
      "p", "e", "e", "d" >>, << "f", "a", "s", "t" >> >>,
   << << "-", "-", "a", "n", "i", "m", "a", "t", "i", "o", "n", "-", "s",
      "p", "e", "e", "d" >>, << "9", "2", "2", "3", "3", "7", "2", "0", "3",
      "6", "8", "5", "4", "7", "7", "5", "8", "0", "8", "n", "s" >> >>,
   << << "-", "-", "a", "n", "i", "m", "a", "t", "i", "o", "n", "-", "s",
      "p", "e", "e", "d", "=", "5", "0", "m", "s" >> >>,
   << << "-", "-", "a", "n", "i", "m", "a", "t", "i", "o", "n", "-", "s",
      "p", "e", "e", "d" >> >>,
   << << "-", "-", "a", "n", "i", "m", "a", "t", "i", "o", "n", "-", "s",
      "p", "e", "e", "d" >>, << "-", "-", "n", "o", "-", "a", "n", "i", "m",
      "a", "t", "i", "o", "n" >> >>,
   << << "-", "-", "a", "n", "i", "m", "a", "t", "i", "o", "n", "-", "p",
      "a", "t", "t", "e", "r", "n" >>, << "s", "p", "a", "r", "k", "l",
      "e" >> >>,
   << << "-", "-", "a", "n", "i", "m", "a", "t", "i", "o", "n", "-", "p",
      "a", "t", "t", "e", "r", "n", "=" >> >>,
   << << "-", "-", "n", "o", "-", "a", "n", "i", "m", "a", "t", "i", "o",
      "n", "=", "f", "a", "l", "s", "e" >> >>,
   << << "-", "-", "n", "o", "-", "a", "n", "i", "m", "a", "t", "i", "o",
      "n", "=", "m", "a", "y", "b", "e" >> >>,
   << << "-", "-", "n", "o", "-", "a", "n", "i", "m", "a", "t", "i", "o",
      "n" >>, << "-", "-", "a", "n", "i", "m", "a", "t", "i", "o", "n", "-",
      "s", "p", "e", "e", "d" >>, << "5", "0", "m", "s" >> >>,
   << << "-", "-", "v", "e", "r", "b", "o", "s", "e" >> >>,
   << << "-", "h" >> >>,
   << << "-", "-", "h", "e", "l", "p" >> >>,
   << << "-", "h", "e", "l", "p" >> >>,
   << << "-", "x" >> >>,
   << << "-", "-", "-", "x" >> >>,
   << << "-" >> >>}

\* what the parsers come to on each of the argument lists: ParseFlagsFromArgs,
\* ParseCobraFlagsFromArgs, and cobra's parser with the help flag defined
FlagsFromArgs == [args \in ArgLists |-> ParseFlagsFromArgs(args)]
CobraFlagsFromArgs == [args \in ArgLists |-> ParseCobraFlagsFromArgs(args)]
CobraFlags == [args \in ArgLists |-> pflagParse(args, NoFlagValues, TRUE)]

\* the FlagConfig values passed to ApplyFlagsToConfig directly
FlagConfigs ==
  {NilFlagConfig} \cup
  {FlagConfig(s, p, e, FALSE) :
     s \in {ZeroDuration, Milliseconds(50), Milliseconds(-5)},
     p \in {"", PatternWave},
     e \in {NilBool, BoolPtr(FALSE), BoolPtr(TRUE)}}

\* the configurations ApplyFlagsToConfig is called on first
StartConfigs ==
  {NilCoreConfig, getDefaultConfig,
   [getDefaultConfig EXCEPT !.Animation.Enabled = FALSE,
                            !.Animation.Pattern = PatternPulse,
                            !.Animation.Speed = Milliseconds(200)],
   [getDefaultConfig EXCEPT !.Display.Width = 0]}

InitFlags ==
  /\ InitAnimIdle
  /\ InitDisplayIdle
  /\ life = NoLife
  /\ InitCenterIdle
  /\ InitValidateIdle
  /\ InitDataSourceIdle
  /\ InitTUIIdle
  /\ reg = NewPluginRegistry
  /\ plugins = NewPlugins
  /\ cfg \in StartConfigs
  /\ coreCall = NoCoreCall
  /\ InitBuildIdle

\* ParseCobraFlagsFromArgs called on an argument list: what it returns
CallParseCobraFlagsFromArgs(args) ==
  /\ LET Parses(parsed) ==
           coreCall' = [NoCoreCall EXCEPT !.op = "ParseCobraFlagsFromArgs",
                                          !.args = args,
                                          !.flagConfig = parsed.flagConfig,
                                          !.parseErr = parsed.err]
     IN Parses(CobraFlagsFromArgs[args])
  /\ UNCHANGED <<reg, plugins, cfg>>
  /\ UNCHANGED <<animVars, dispVars, life, ctrVars, valVars, dsVars, tuiVars, buildVars>>

CallApplyFlagsToConfig(flagConfig) ==
  /\ LET res == ApplyFlagsToConfig(cfg, flagConfig)
     IN /\ cfg' = res.config
        /\ coreCall' = [ConfigCall("ApplyFlagsToConfig", res) EXCEPT
                          !.flagConfig = flagConfig]
  /\ UNCHANGED <<reg, plugins>>
  /\ UNCHANGED <<animVars, dispVars, life, ctrVars, valVars, dsVars, tuiVars, buildVars>>

\* whether the argument list holds the argument arg
HasArg(args, arg) == \E j \in 1..Len(args) : args[j] = arg

\* main of main.go up to the configuration the program runs with: the usage
\* is printed, and nothing else done, when an argument is --help or -h; the
\* program exits on a parser error, before it has a ConfigManager;
\* otherwise NewConfigManager (recorded as the config the call was made
\* on), ApplyFlagsToConfig, ValidateConfig (exit on an error of either)
\* and, when an argument is --bankruptcy, UpdateConfig.  parsed is what
\* ParseFlagsFromArgs returns and applied what ApplyFlagsToConfig returns.
StartFlag(args) ==
  /\ LET Run(parsed, bankruptcyMode, applied, validateErr, call) ==
           IF HasArg(args, << "-", "-" >> \o HelpName) \/ HasArg(args, << "-", "h" >>)
             THEN /\ cfg' = cfg
                  /\ coreCall' = [call EXCEPT !.usage = TRUE]
           ELSE IF parsed.err # ""
             THEN /\ cfg' = cfg
                  /\ coreCall' = [call EXCEPT !.flagConfig = parsed.flagConfig,
                                              !.parseErr = parsed.err]
           ELSE /\ cfg' =
                     IF applied.err = "" /\ validateErr = "" /\ bankruptcyMode
                       THEN UpdateConfig(applied.config,
                                         Updates("plugins.datasource",
                                                 StringValue("bankruptcy-datasource"))).config
                       ELSE applied.config
                /\ coreCall' = [call EXCEPT !.config = getDefaultConfig,
                                            !.flagConfig = parsed.flagConfig,
                                            !.bankruptcyMode = bankruptcyMode,
                                            !.configErr = applied.err,
                                            !.validateErr = validateErr]
         Applied(parsed, applied) ==
           Run(parsed, HasArg(args, << "-", "-" >> \o BankruptcyName), applied,
               ValidateConfig(applied.config),
               [NoCoreCall EXCEPT !.op = "main", !.args = args,
                                  !.arg = "ParseFlagsFromArgs"])
         Flags(parsed) ==
           Applied(parsed, ApplyFlagsToConfig(getDefaultConfig, parsed.flagConfig))
     IN Flags(FlagsFromArgs[args])
  /\ UNCHANGED <<reg, plugins>>
  /\ UNCHANGED <<animVars, dispVars, life, ctrVars, valVars, dsVars, tuiVars, buildVars>>

\* Execute of root.go up to the configuration the program runs with.  cobra
\* defines the help flag and parses the arguments into the flag variables;
\* on a parser error Execute returns it and runApplication is not called;
\* when the help flag is set the help is printed and nothing else done.
\* Otherwise runApplication: convertCobraFlags (it returns on an error,
\* before there is a ConfigManager), NewConfigManager (recorded as the
\* config the call was made on), ApplyFlagsToConfig, ValidateConfig (it
\* returns on an error of either) and, when the bankruptcy flag is set,
\* UpdateConfig.  parsed is what cobra's parser comes to, converted what
\* convertCobraFlags returns and applied what ApplyFlagsToConfig returns.
StartCobra(args) ==
  /\ LET Run(parsed, converted, applied, validateErr, call) ==
           IF parsed.err # ""
             THEN /\ cfg' = cfg
                  /\ coreCall' = [call EXCEPT !.flagConfig = NilFlagConfig,
                                              !.parseErr = parsed.err]
           ELSE IF parsed.values.help
             THEN /\ cfg' = cfg
                  /\ coreCall' = [call EXCEPT !.usage = TRUE]
           ELSE IF converted.err # ""
             THEN /\ cfg' = cfg
                  /\ coreCall' = [call EXCEPT !.flagConfig = converted.flagConfig,
                                              !.parseErr = converted.err]
           ELSE /\ cfg' =
                     IF applied.err = "" /\ validateErr = ""
                          /\ parsed.values.bankruptcy
                       THEN UpdateConfig(applied.config,
                                         Updates("plugins.datasource",
                                                 StringValue("bankruptcy-datasource"))).config
                       ELSE applied.config
                /\ coreCall' = [call EXCEPT !.config = getDefaultConfig,
                                            !.flagConfig = converted.flagConfig,
                                            !.bankruptcyMode = parsed.values.bankruptcy,
                                            !.configErr = applied.err,
                                            !.validateErr = validateErr]
         Applied(parsed, converted, applied) ==
           Run(parsed, converted, applied, ValidateConfig(applied.config),
               [NoCoreCall EXCEPT !.op = "main", !.args = args,
                                  !.arg = "convertCobraFlags"])
         Converted(parsed, converted) ==
           Applied(parsed, converted,
                   ApplyFlagsToConfig(getDefaultConfig, converted.flagConfig))
         Flags(parsed) == Converted(parsed, convertCobraFlags(parsed.values))
     IN Flags(CobraFlags[args])
  /\ UNCHANGED <<reg, plugins>>
  /\ UNCHANGED <<animVars, dispVars, life, ctrVars, valVars, dsVars, tuiVars, buildVars>>

NextFlags ==
  \/ \E flagConfig \in FlagConfigs : CallApplyFlagsToConfig(flagConfig)
  \/ \E args \in ArgLists : CallParseCobraFlagsFromArgs(args)
  \/ \E args \in ArgLists : StartFlag(args)
  \/ \E args \in ArgLists : StartCobra(args)

SpecFlags == InitFlags /\ [][NextFlags]_vars

(***************************************************************************)
(* Claims about the plugin registry.                                       *)
(***************************************************************************)
\* the map of the role a Register method fills, and the Get method of it
MapOf(pr, op) ==
  IF op = "RegisterDataSource" THEN pr.dataSources
  ELSE IF op = "RegisterDisplay" THEN pr.displays
  ELSE pr.animations

GetOf(pr, op, name) ==
  IF op = "RegisterDataSource" THEN GetDataSource(pr, name)
  ELSE IF op = "RegisterDisplay" THEN GetDisplay(pr, name)
  ELSE GetAnimation(pr, name)

\* C22: RegisterDataSource, RegisterDisplay and RegisterAnimation succeed
\* if and only if no plugin of the same name is registered for that role.
\* A rejected registration returns an "already registered" error and leaves
\* the registry as it was: the plugin counts are the same and Get for the
\* name returns the plugin registered before.  An accepted one makes Get
\* return the plugin and adds one to the count of its role only.
C22_RegisterIffNameFree ==
  coreCall.op \in {"RegisterDataSource", "RegisterDisplay", "RegisterAnimation"} =>
    LET name == Name(coreCall.arg)
        before == coreCall.registry
        was == name \in DOMAIN MapOf(before, coreCall.op)
    IN /\ (coreCall.err = NoRegistryError) <=> ~was
       /\ was =>
            /\ coreCall.err.msg = "already registered"
            /\ coreCall.err.name = name
            /\ reg = before
            /\ GetPluginCount(reg) = GetPluginCount(before)
            /\ GetOf(reg, coreCall.op, name).plugin = MapOf(before, coreCall.op)[name]
            /\ GetOf(reg, coreCall.op, name).err = NoRegistryError
       /\ ~was =>
            /\ GetOf(reg, coreCall.op, name).plugin = coreCall.arg
            /\ Cardinality(DOMAIN MapOf(reg, coreCall.op)) =
                 Cardinality(DOMAIN MapOf(before, coreCall.op)) + 1
            /\ GetPluginCount(reg).dataSources + GetPluginCount(reg).displays
                 + GetPluginCount(reg).animations =
                 GetPluginCount(before).dataSources + GetPluginCount(before).displays
                 + GetPluginCount(before).animations + 1
            /\ \A n \in DOMAIN MapOf(before, coreCall.op) :
                 MapOf(reg, coreCall.op)[n] = MapOf(before, coreCall.op)[n]

\* a second RainbowTUIPlugin is rejected while the first one stays
\* registered, with one plugin in each role
C22_Witness ==
  /\ coreCall.op = "RegisterDisplay"
  /\ coreCall.arg = "display#2"
  /\ coreCall.err.msg = "already registered"
  /\ reg.displays["rainbow-display"] = "display#1"
  /\ GetPluginCount(reg) = [dataSources |-> 1, displays |-> 1, animations |-> 1]

\* the registered plugins whose Shutdown returns an error
FailingPlugins(pr) ==
  {q \in ListPlugins(pr) \cap MockPlugins : plugins[q].shouldError}

\* C23 as stated: after ShutdownAll every plugin registered in any of the
\* three roles is not enabled, Shutdown was called on every registered
\* plugin, and ShutdownAll returned an error if and only if the Shutdown of
\* at least one of them failed.
C23_ShutdownAllDisablesAll ==
  coreCall.op = "ShutdownAll" =>
    /\ \A q \in ListPlugins(reg) : ~plugins[q].enabled
    /\ coreCall.called = ListPlugins(reg)
    /\ (coreCall.err # NoRegistryError) <=> (FailingPlugins(reg) # {})

\* C23, amended: ShutdownAll calls Shutdown on every plugin registered in
\* any of the three roles, also after a Shutdown that failed, and returns
\* an error if and only if at least one Shutdown failed; after it every
\* registered plugin whose Shutdown succeeded is not enabled, a plugin whose
\* Shutdown failed is as it was before, and so is every plugin that is not
\* registered.
C23_ShutdownAllAttemptsAll ==
  coreCall.op = "ShutdownAll" =>
    /\ coreCall.called = ListPlugins(reg)
    /\ (coreCall.err # NoRegistryError) <=> (FailingPlugins(reg) # {})
    /\ coreCall.err # NoRegistryError => coreCall.err.msg = "plugin shutdown errors"
    /\ coreCall.failed = {Name(q) : q \in FailingPlugins(reg)}
    /\ \A q \in ListPlugins(reg) \ FailingPlugins(reg) : ~plugins[q].enabled
    /\ \A q \in FailingPlugins(reg) : plugins[q] = coreCall.objects[q]
    /\ \A q \in Plugins \ ListPlugins(reg) : plugins[q] = coreCall.objects[q]

\* the mock data source's Shutdown failed and the display and animation
\* plugins, enabled before, were shut down all the same; the mock is still
\* enabled
C23_Witness ==
  /\ coreCall.op = "ShutdownAll"
  /\ ListPlugins(reg) = {"mock#1", "display#1", "animation#1"}
  /\ coreCall.objects["display#1"].enabled
  /\ coreCall.objects["animation#1"].enabled
  /\ coreCall.err.msg = "plugin shutdown errors"
  /\ coreCall.failed = {"ccusage-datasource"}
  /\ ~plugins["display#1"].enabled
  /\ ~plugins["animation#1"].enabled
  /\ plugins["mock#1"].enabled

\* the plugin and the error a GetActive method has to return for the name
\* the configuration holds
ActiveIs(m, name) ==
  IF name \in DOMAIN m
    THEN /\ coreCall.plugin = m[name]
         /\ Name(coreCall.plugin) = name
         /\ coreCall.err = NoRegistryError
    ELSE /\ coreCall.plugin = NilPlugin
         /\ coreCall.err.msg = "not found"
         /\ coreCall.err.name = name

\* C24: with a configuration, GetActiveDataSource, GetActiveDisplay and
\* GetActiveAnimation return the plugin registered under the name the
\* configuration holds for the role, and an error when no plugin of that
\* name is registered; after UpdateConfig has set plugins.datasource to
\* "bankruptcy-datasource" the configuration holds that name and the active
\* data source is the bankruptcy plugin, if it is registered.
C24_ActiveFollowsConfig ==
  /\ (coreCall.op = "GetActiveDataSource" /\ ~cfg.isNil) =>
       ActiveIs(reg.dataSources, cfg.Plugins.DataSource)
  /\ (coreCall.op = "GetActiveDisplay" /\ ~cfg.isNil) =>
       ActiveIs(reg.displays, cfg.Plugins.Display)
  /\ (coreCall.op = "GetActiveAnimation" /\ ~cfg.isNil) =>
       ActiveIs(reg.animations, cfg.Plugins.Animation)
  /\ (/\ coreCall.op = "UpdateConfig"
      /\ ~coreCall.config.isNil
      /\ coreCall.updates =
           Updates("plugins.datasource", StringValue("bankruptcy-datasource"))) =>
       /\ ~coreCall.panicked
       /\ cfg.Plugins.DataSource = "bankruptcy-datasource"
       /\ "bankruptcy-datasource" \in DOMAIN reg.dataSources =>
            GetActiveDataSource(reg, cfg).plugin = "bankruptcy#1"
  /\ cfg.Plugins.DataSource = "bankruptcy-datasource" =>
       \/ coreCall.op # "GetActiveDataSource"
       \/ coreCall.plugin \in {"bankruptcy#1", NilPlugin}

\* with both data sources registered and the configuration updated to the
\* bankruptcy data source, GetActiveDataSource returned the bankruptcy plugin
C24_Witness ==
  /\ coreCall.op = "GetActiveDataSource"
  /\ cfg.Plugins.DataSource = "bankruptcy-datasource"
  /\ DOMAIN reg.dataSources = {"ccusage-cli", "bankruptcy-datasource"}
  /\ coreCall.plugin = "bankruptcy#1"
  /\ coreCall.err = NoRegistryError

(***************************************************************************)
(* Claims about the flags and the configuration.                           *)
(***************************************************************************)
\* the program started and its flags were parsed without an error
StartedWithFlags ==
  coreCall.op = "main" /\ ~coreCall.usage /\ coreCall.parseErr = ""

\* whether the argument writes the flag `name`: one or two dashes, the name,
\* and nothing more or "=" and a value
WritesFlag(arg, name) ==
  \E dashes \in 1..2 :
    /\ Len(arg) >= dashes + Len(name)
    /\ \A j \in 1..dashes : arg[j] = "-"
    /\ SubSeq(arg, dashes + 1, dashes + Len(name)) = name
    /\ Len(arg) > dashes + Len(name) => arg[dashes + Len(name) + 1] = "="

\* whether some argument of the list writes the flag
FlagGiven(args, name) == \E j \in 1..Len(args) : WritesFlag(args[j], name)

\* C25: ApplyFlagsToConfig changes only the animation speed (when the flag
\* speed is > 0), the animation pattern (when a pattern flag was given) and
\* the animation enabled flag (when --no-animation was given); every other
\* field, and each of the three whose flag was not given, keeps its value.
\* At the start of the program the configuration is the default one but for
\* the fields the parsed flags override, and the animation stays enabled
\* when no argument writes --no-animation.
C25_FlagOverrideFrame ==
  /\ (/\ coreCall.op = "ApplyFlagsToConfig"
      /\ ~coreCall.config.isNil
      /\ ~coreCall.flagConfig.isNil) =>
       LET before == coreCall.config
           flag == coreCall.flagConfig.Animation
       IN /\ coreCall.configErr = ""
          /\ ~coreCall.panicked
          /\ cfg.App = before.App
          /\ cfg.Display = before.Display
          /\ cfg.DataSource = before.DataSource
          /\ cfg.Plugins = before.Plugins
          /\ cfg.Animation.Colors = before.Animation.Colors
          /\ cfg.Animation.Speed =
               (IF Positive(flag.Speed) THEN flag.Speed ELSE before.Animation.Speed)
          /\ cfg.Animation.Pattern =
               (IF flag.Pattern # "" THEN flag.Pattern ELSE before.Animation.Pattern)
          /\ cfg.Animation.Enabled =
               (IF ~flag.Enabled.isNil THEN flag.Enabled.value
                ELSE before.Animation.Enabled)
  /\ StartedWithFlags =>
       LET flag == coreCall.flagConfig.Animation
       IN /\ cfg.App = getDefaultConfig.App
          /\ cfg.Display = getDefaultConfig.Display
          /\ cfg.DataSource = getDefaultConfig.DataSource
          /\ cfg.Plugins.Display = getDefaultConfig.Plugins.Display
          /\ cfg.Plugins.Animation = getDefaultConfig.Plugins.Animation
          /\ cfg.Animation.Colors = getDefaultConfig.Animation.Colors
          /\ cfg.Animation.Enabled = flag.Enabled.isNil
          /\ cfg.Animation.Pattern =
               (IF flag.Pattern # "" THEN flag.Pattern
                ELSE getDefaultConfig.Animation.Pattern)
          /\ cfg.Animation.Speed =
               (IF Positive(flag.Speed) THEN flag.Speed
                ELSE getDefaultConfig.Animation.Speed)
          /\ ~FlagGiven(coreCall.args, NoAnimationName) => cfg.Animation.Enabled
          /\ ~FlagGiven(coreCall.args, AnimationPatternName) =>
               cfg.Animation.Pattern = getDefaultConfig.Animation.Pattern
          /\ ~FlagGiven(coreCall.args, AnimationSpeedName) =>
               cfg.Animation.Speed = getDefaultConfig.Animation.Speed

\* --animation-speed 50ms --animation-pattern gradient: the speed and the
\* pattern are set and the animation is still enabled
C25_Witness ==
  /\ StartedWithFlags
  /\ coreCall.arg = "convertCobraFlags"
  /\ coreCall.args =
       << << "-", "-", "a", "n", "i", "m", "a", "t", "i", "o", "n", "-", "s",
       "p", "e", "e", "d" >>, << "5", "0", "m", "s" >>, << "-", "-", "a", "n",
       "i", "m", "a", "t", "i", "o", "n", "-", "p", "a", "t", "t", "e", "r",
       "n" >>, << "g", "r", "a", "d", "i", "e", "n", "t" >> >>
  /\ coreCall.flagConfig.Animation.Enabled.isNil
  /\ cfg.Animation.Speed = Milliseconds(50)
  /\ cfg.Animation.Pattern = PatternGradient
  /\ cfg.Animation.Enabled

\* C26: for every argument list a flag parser accepts, applying the parsed
\* flags to the default configuration yields a configuration that passes
\* ValidateConfig: its pattern is one of the four, its display dimensions
\* and its refresh rate are positive and its animation speed is strictly
\* positive.  This holds of the two starts of the program; and
\* ParseCobraFlagsFromArgs returns without an error only a FlagConfig whose
\* pattern is empty or one of the four, and ApplyFlagsToConfig called with
\* such a FlagConfig on the default configuration leaves a valid one.
C26_StartupConfigValid ==
  /\ StartedWithFlags =>
       /\ coreCall.configErr = ""
       /\ ~coreCall.panicked
       /\ coreCall.validateErr = ""
       /\ ValidateConfig(cfg) = ""
       /\ cfg.Animation.Pattern \in
            {PatternRainbow, PatternGradient, PatternPulse, PatternWave}
       /\ cfg.Display.Width > 0
       /\ cfg.Display.Height > 0
       /\ Positive(cfg.App.RefreshRate)
       /\ Positive(cfg.Animation.Speed)
  /\ (coreCall.op = "ParseCobraFlagsFromArgs" /\ coreCall.parseErr = "") =>
       /\ ~coreCall.flagConfig.isNil
       /\ coreCall.flagConfig.Animation.Pattern \in
            {"", PatternRainbow, PatternGradient, PatternPulse, PatternWave}
  /\ (/\ coreCall.op = "ApplyFlagsToConfig"
      /\ coreCall.config = getDefaultConfig
      /\ ~coreCall.flagConfig.isNil
      /\ coreCall.flagConfig.Animation.Pattern \in
           {"", PatternRainbow, PatternGradient, PatternPulse, PatternWave}) =>
       /\ coreCall.configErr = ""
       /\ ~coreCall.panicked
       /\ ValidateConfig(cfg) = ""
       /\ Positive(cfg.Animation.Speed)

\* --animation-speed -5ms is accepted by cobra's parser and by
\* convertCobraFlags, which yields a negative flag speed; the configuration
\* keeps its positive default speed
C26_Witness ==
  /\ StartedWithFlags
  /\ coreCall.arg = "convertCobraFlags"
  /\ coreCall.args =
       << << "-", "-", "a", "n", "i", "m", "a", "t", "i", "o", "n", "-", "s",
       "p", "e", "e", "d" >>, << "-", "5", "m", "s" >>, << "-", "-", "a", "n",
       "i", "m", "a", "t", "i", "o", "n", "-", "p", "a", "t", "t", "e", "r",
       "n" >>, << "w", "a", "v", "e" >> >>
  /\ coreCall.flagConfig.Animation.Speed = Milliseconds(-5)
  /\ coreCall.validateErr = ""
  /\ cfg.Animation.Speed = Milliseconds(100)
  /\ cfg.Animation.Pattern = PatternWave

====
